---- MODULE Spec2Model ----
(***************************************************************************)
(* Job-lifecycle orchestration of the shell provisioner:                   *)
(*   - Reconcile (the orchestrator's Ensure) creates one Job per run of a  *)
(*     ProvisionerSpec and writes the run's UUID back onto the spec;       *)
(*   - ShellJobController.reconcileJobs (the watcher) resolves the outcome *)
(*     of a Job from its first condition, extracts per-container failures  *)
(*     and deletes the Job.                                                *)
(* One (Build, ProvisionerSpec) pair is modelled; the object store holds   *)
(* the Jobs of that pair and their pods.                                   *)
(* The SSH client of pkg/ssh (Validate, Connect, keepAlive, Disconnect) is  *)
(* modelled next to it, under a specification of its own (SshSpec).        *)
(***************************************************************************)
EXTENDS Integers, Sequences, FiniteSets, TLC

\* Number of UUIDs the orchestrator may mint (runs of the provisioner).
MaxIds == 2

\* Number of failing calls (object store or outcome sink) the environment
\* may inject into watcher reconciles.
MaxFaults == 1

\* RequeueAfter: 2 * time.Second
RequeueAfterSeconds == 2

NoId == 0
Ids == 1..MaxIds

(***************************************************************************)
(* Errors.  An error is the chain of its wrappers, outermost first; nil is *)
(* the empty chain.  fmt.Errorf("msg: %w", err) prepends a wrapper.        *)
(***************************************************************************)
Nil == << >>
ErrNotFound == << "NotFound" >>
ErrStore == << "ServerTimeout" >>
ErrBuild == << "BuildError" >>
ErrUnrecognized == << "unrecognized scan job condition" >>
ErrCacheDelete == << "cannot decrease number of running jobs" >>
ErrSetCache == << "cannot set cache when job is failed" >>

Wrap(msg, err) == << msg >> \o err

\* k8sapierror.IsNotFound looks through the wrappers (errors.As).
IsNotFound(err) == err # Nil /\ err[Len(err)] = "NotFound"

\* errors.Is(err, podControlledByJobNotFoundErr)
IsPodControlledByJobNotFound(err) ==
    err # Nil /\ err[Len(err)] = "PodControlledByJobNotFound"

(***************************************************************************)
(* Pods and container statuses.                                            *)
(***************************************************************************)
CNames == {"init", "shell", "sidecar"}

CS(n, t, e) == [name |-> n, term |-> t, exit |-> e]

\* the main container terminated with exit code 0
PodZero == [init |-> << >>, main |-> << CS("shell", TRUE, 0) >>]
\* the init container terminated with exit code 1, the main container with
\* exit code 7, and a second main container has not terminated
PodBoth == [init |-> << CS("init", TRUE, 1) >>,
            main |-> << CS("shell", TRUE, 7), CS("sidecar", FALSE, 0) >>]

\* Condition types of a Job: the two terminal ones and one that is neither
\* (Suspended, FailureTarget, SuccessCriteriaMet).
Complete == "Complete"
Failed == "Failed"
Other == "FailureTarget"

\* What a Job can look like once the cluster has run it: its conditions
\* and the pods that back it, in the order the store lists them.  (Pods are
\* listed only for a Job whose first condition is Failed; the pods of the
\* other Jobs are left out.)
Outcomes ==
    { [conds |-> << Complete >>, pods |-> << >>],
      [conds |-> << Failed >>, pods |-> << PodBoth >>],
      [conds |-> << Failed >>, pods |-> << PodZero, PodBoth >>],
      [conds |-> << Other, Failed >>, pods |-> << >>] }

VARIABLES
    specUUID,   \* spec.UUID of the ProvisionerSpec the caller holds (NoId = nil)
    nextId,     \* the next UUID uuid.New() returns
    platform,   \* which controller-uid label key the cluster's Jobs select on
    jobs,       \* object store: the Job stored under each name
    pods,       \* object store: the pods backing each Job, in list order
    queue,      \* the watcher's work queue (Job names)
    w,          \* the watcher's reconcile in flight, or the one that has just returned,
                \* with the failure records it handed to the outcome sink
    minted,     \* the UUIDs of all Jobs ever applied to the store
    faults,     \* failing calls the environment may still inject
    ens,        \* the Reconcile (Ensure) call that has just returned, if any
    failureReason, \* failureReason/failureMessage of the ProvisionerSpec (NilStr = unset)
    creds,      \* SSHClient.Creds: SSHUser, SSHPassword, SSHPrivateKey
    client,     \* SSHClient: cryptoClient, close and Options.KeepAlive
    signals,    \* the channels made for SSHClient.close, and which are closed
    conns,      \* the connections dial has established
    tasks,      \* the keepAlive goroutines started, in order
    thr,        \* the call of the SSHClient each caller is in, or has just returned from
    now,        \* the clock, in seconds
    wfs,        \* the call of WaitForSSH
    up,         \* the call of Upload: its goroutines, the session's stdin, the remote scp
    down,       \* the call of Download: its goroutines, the session's pipes, the remote scp
    rot,        \* Credentials.mu (its holder), and the password and key last set
    ev          \* the event handed to an event filter, and the filter's answer

ctlVars == << specUUID, nextId, platform, jobs, pods, queue, w, minted, faults, ens,
              failureReason >>

sshVars == << creds, client, signals, conns, tasks, thr, now, wfs, up, down,
             rot, ev >>

vars == << specUUID, nextId, platform, jobs, pods, queue, w, minted, faults, ens,
           failureReason, creds, client, signals, conns, tasks, thr, now, wfs,
           up, down, rot, ev >>

NilStr == "<nil>"

ForgeCoreNamespace == "forge-core"
ForgeProvisionerShellName == "forge-provisioner-shell"

NoJob == [live |-> FALSE, ns |-> "", managedBy |-> "", buildName |-> "",
          uuid |-> NoId, script |-> "", selKey |-> "", conds |-> << >>]

\* A reconcile of the watcher: where it is (pc), the Job it is about (key),
\* the conditions it read, whether the pod lookup returned without error
\* (looked) and the pods it listed, what the outcome sink answered (sink) and
\* the failure records it took per container (emitted), the outcome of the
\* delete call (del), the number of store calls made (calls), the call that
\* answered "not found" (nf), the call the store failed (fault), and the
\* Job as re-fetched on the failure path (refreshed), and the error returned
\* (res).
IdlePass == [pc |-> "idle", key |-> NoId, conds |-> << >>, looked |-> FALSE,
             podList |-> << >>, sink |-> "none",
             emitted |-> [c \in CNames |-> 0],
             del |-> "none", calls |-> 0, nf |-> "none", fault |-> "none",
             refreshed |-> NoJob, res |-> Nil]

\* No script source: spec.Run and spec.RunConfigMapRef both nil.
NoSource == [run |-> NilStr, ref |-> NilStr]

\* A call of Reconcile: how it ended (out), spec.UUID, the store and the
\* minted UUIDs when it was called (pre, before, earlier), the error and the
\* requeue delay it returned, the number of CreateOrUpdate calls it made
\* (attempts), the error the failing call gave it (fault), and the script
\* source of the spec when the call had a Job to build (src).
NoCall == [out |-> "none", pre |-> NoId, before |-> << >>, earlier |-> {},
           err |-> Nil, requeue |-> 0, attempts |-> 0, fault |-> Nil,
           src |-> NoSource]

(***************************************************************************)
(* The SSH client (pkg/ssh): one SSHClient, its callers and its keepAlive   *)
(* goroutines.                                                             *)
(***************************************************************************)
\* Number of connections dial may establish.
MaxConns == 2

\* Number of goroutines calling the client.
MaxCallers == 2

Callers == 1..MaxCallers

\* Options.KeepAlive, in seconds, of a client that has keepalive configured.
KeepAliveSeconds == 5

ErrInvalidUsername == << "a valid username must be supplied" >>
ErrInvalidAuth == << "invalid authorization method: missing password or key" >>
ErrParseKey == << "ssh: no key found" >>
ErrDial == << "dial tcp: connection refused" >>

PasswordAuth == "password"
KeyAuth == "key"

\* Credentials: a string is empty or not; a private key parses or does not.
Credentials ==
    [user : {"", "root"}, password : {"", "secret"},
     key : {"", "good-key", "bad-key"}]

NoCreds == [user |-> "", password |-> "", key |-> ""]

\* cryptoClient and close are nil (0) until Connect sets them.
NewClient(keepAlive) == [cryptoClient |-> 0, close |-> 0, keepAlive |-> keepAlive]

\* A call of a caller: the method (op) and where it is (pc), the credentials
\* it read (seen), the error it returned (err), how often it called
\* readPrivateKey and dial (keyReads, dials), what dial returned (dialErr),
\* the auth method it put in the config (auth), whether it stored a session
\* handle (stored), made a
\* disconnect signal (signal) or closed one (closed), and the keepAlive
\* goroutine it started (started, 0 = none).
\* A call of a setter or getter has the string it was given (arg) or the one
\* it returns (ret).
NoOp == [op |-> "none", pc |-> "idle", seen |-> NoCreds, err |-> Nil,
         keyReads |-> 0, dials |-> 0, dialErr |-> Nil, auth |-> "none",
         stored |-> FALSE,
         signal |-> FALSE, closed |-> FALSE, started |-> 0,
         arg |-> "", ret |-> ""]

\* No event is being filtered.
NoEvent == [pc |-> "idle"]

\* Credentials.mu unlocked (0; otherwise the caller that holds it), and no
\* call of a setter completed yet (otherwise the string the last one set).
Unlocked == [mu |-> 0, last |-> [password |-> NilStr, key |-> NilStr]]

\* Upper end of the maxWait values, in seconds, WaitForSSH is called with.
MaxWaitSeconds == 5

ErrTimeout == << "timed out waiting for sshd to respond" >>

\* A call of WaitForSSH: where it is (pc), its argument, the time it started
\* at, the calls of Connect and of time.Sleep it has made, and what it returned.
NoWait == [pc |-> "idle", maxWait |-> 0, start |-> 0, attempts |-> 0,
           sleeps |-> 0, err |-> Nil]

NoUpload == [pc |-> "idle"]
NoDownload == [pc |-> "idle"]

\* The SSH client before any call, as the controllers leave it.
SshUnused ==
    /\ creds = NoCreds
    /\ client = NewClient(0)
    /\ signals = [next |-> 1, closed |-> {}]
    /\ conns = 0
    /\ tasks = << >>
    /\ thr = [t \in Callers |-> NoOp]
    /\ now = 0
    /\ wfs = NoWait
    /\ up = NoUpload
    /\ down = NoDownload
    /\ rot = Unlocked
    /\ ev = NoEvent

Init ==
    /\ SshUnused
    /\ specUUID = NoId
    /\ nextId = 1
    /\ platform \in {"controller-uid", "batch.kubernetes.io/controller-uid"}
    /\ jobs = [k \in Ids |-> NoJob]
    /\ pods = [k \in Ids |-> << >>]
    /\ queue = {}
    /\ w = IdlePass
    /\ minted = {}
    /\ faults = MaxFaults
    /\ ens = NoCall
    /\ failureReason = NilStr

\* ens and a returned pass in w describe the call that has just returned:
\* the next step of anything else forgets them.
ForgetCall == ens' = NoCall
ForgetPass == w' = IF w.pc = "idle" THEN IdlePass ELSE w

(***************************************************************************)
(* The orchestrator: Reconcile(ctx, client, build, spec).                  *)
(***************************************************************************)
\* The script source of a ProvisionerSpec: spec.Run xor spec.RunConfigMapRef.
ScriptSources ==
    { [run |-> "echo hello", ref |-> NilStr],
      [run |-> NilStr, ref |-> "script-configmap"] }

\* The name the builder gives the Job of a run: derived from the run's UUID.
JobName(id) == id

\* builder.Build(): the desired Job, carrying the UUID and the build name as
\* labels and the script to run.
ShellJobBuilderBuild(id, script) ==
    [live |-> TRUE, ns |-> ForgeCoreNamespace,
     managedBy |-> ForgeProvisionerShellName, buildName |-> "build",
     uuid |-> id, script |-> script, selKey |-> "", conds |-> << >>]

\* controllerutil.CreateOrUpdate with a mutate function that changes nothing:
\* Get the object; create it when it is not found; otherwise the stored
\* object equals itself after the mutation and nothing is written.
\* The API server fills in the selector of a Job it creates.
CreateOrUpdate(store, key, desired, sel, callErr) ==
    IF callErr # Nil
    THEN [op |-> "unchanged", err |-> callErr, store |-> store]
    ELSE IF store[key].live
    THEN [op |-> "unchanged", err |-> Nil, store |-> store]
    ELSE [op |-> "created", err |-> Nil,
          store |-> [store EXCEPT ![key] = [desired EXCEPT !.selKey = sel]]]

\* if spec.UUID == nil (line 26): the Job is created only for a spec without
\* a UUID.
NeverAssigned(uuid) == FALSE
AlreadyAssigned(uuid) == uuid # NoId

\* Lines 57-62: the delay requested after the store call, by its result.
NoRequeue(op) == 0
RequeueAfterCreate(op) == IF op # "unchanged" THEN RequeueAfterSeconds ELSE 0

\* Lines 52-56: spec.UUID after the store call: written only when the call
\* returned no error.
UUIDAlwaysWritten(uuid, id, err) == id
UUIDAfterCall(uuid, id, err) == IF err # Nil THEN uuid ELSE id

\* The body of Reconcile as a function of the spec, the UUID uuid.New()
\* yields, the outcome of builder.Build() and of the store call.
ReconcileOrchestrator(uuid, id, src, buildErr, callErr, store, sel) ==
    IF AlreadyAssigned(uuid)
    THEN [out |-> "returned", err |-> Nil, requeue |-> 0, uuid |-> uuid,
          store |-> store, attempts |-> 0, fault |-> Nil]
    ELSE IF src.run = NilStr /\ src.ref # NilStr
    THEN \* line 41 dereferences spec.Run, which is nil
         [out |-> "panic", err |-> Nil, requeue |-> 0, uuid |-> uuid,
          store |-> store, attempts |-> 0, fault |-> Nil]
    ELSE IF buildErr # Nil
    THEN [out |-> "returned", err |-> buildErr, requeue |-> 0, uuid |-> uuid,
          store |-> store, attempts |-> 0, fault |-> buildErr]
    ELSE LET cu == CreateOrUpdate(store, JobName(id),
                                  ShellJobBuilderBuild(id, src.run), sel, callErr)
         IN  [out |-> "returned", err |-> cu.err,
              requeue |-> IF cu.err # Nil THEN 0 ELSE RequeueAfterCreate(cu.op),
              uuid |-> UUIDAfterCall(uuid, id, cu.err),
              store |-> cu.store, attempts |-> 1, fault |-> callErr]

\* uuid.New() yields an id no earlier call yielded; an id that was yielded
\* and never applied to the store leaves no trace, so the counter advances
\* only when a Job carrying the id was created.  The script source, the
\* outcome of builder.Build() and that of the store call are inputs of the
\* calls that get to them only.
Ensure ==
    \E src \in IF AlreadyAssigned(specUUID) THEN {NoSource} ELSE ScriptSources,
       buildErr \in IF AlreadyAssigned(specUUID) THEN {Nil} ELSE {Nil, ErrBuild} :
    \E callErr \in IF AlreadyAssigned(specUUID) \/ buildErr # Nil
                           \/ src.run = NilStr
                    THEN {Nil} ELSE {Nil, ErrStore} :
        /\ AlreadyAssigned(specUUID) \/ nextId <= MaxIds
        /\ LET r == ReconcileOrchestrator(specUUID, nextId, src, buildErr,
                                          callErr, jobs, platform)
               applied == r.store # jobs
           IN  /\ specUUID' = r.uuid
               /\ jobs' = r.store
               /\ nextId' = IF applied THEN nextId + 1 ELSE nextId
               /\ minted' = IF applied THEN minted \cup {nextId} ELSE minted
               /\ ens' = [out |-> r.out, pre |-> specUUID, before |-> jobs,
                          earlier |-> minted, err |-> r.err,
                          requeue |-> r.requeue, attempts |-> r.attempts,
                          fault |-> r.fault,
                          src |-> IF AlreadyAssigned(specUUID) THEN NoSource
                                  ELSE src]
        /\ ForgetPass
        /\ UNCHANGED << platform, pods, queue, faults, failureReason >>
        /\ UNCHANGED sshVars

\* The caller reads the ProvisionerSpec again without the UUID written back
\* by the last Reconcile: its update of the Build was not persisted, or the
\* run is being retried.
SpecWithoutUUID ==
    /\ specUUID # NoId
    /\ specUUID' = NoId
    /\ ForgetCall /\ ForgetPass
    /\ UNCHANGED << nextId, platform, jobs, pods, queue, minted, faults, failureReason >>
    /\ UNCHANGED sshVars

(***************************************************************************)
(* The cluster: Jobs run, get conditions and pods; objects get deleted.    *)
(***************************************************************************)
\* The event filter of SetupWithManager: all five predicates.
ManagedByForgeProvisionerShell(job) == job.managedBy = ForgeProvisionerShellName
InNamespace(ns, job) == job.ns = ns
JobHasAnyCondition(job) == Len(job.conds) > 0
HasBuildNameLabel(job) == job.buildName # ""
HasProvisionerIDLabel(job) == job.uuid # NoId

WatchFilterInAnyNamespace(job) ==
    /\ ManagedByForgeProvisionerShell(job)
    /\ JobHasAnyCondition(job)
    /\ HasBuildNameLabel(job)
    /\ HasProvisionerIDLabel(job)
WatchFilter(job) ==
    /\ ManagedByForgeProvisionerShell(job)
    /\ InNamespace(ForgeCoreNamespace, job)
    /\ JobHasAnyCondition(job)
    /\ HasBuildNameLabel(job)
    /\ HasProvisionerIDLabel(job)

\* A running Job ends: the cluster writes its conditions, the pods it ran
\* exist, and the update event passes through the filter into the queue.
JobFinishes(k) ==
    /\ jobs[k].live
    /\ jobs[k].conds = << >>
    /\ \E o \in Outcomes :
        /\ jobs' = [jobs EXCEPT ![k].conds = o.conds]
        /\ pods' = [pods EXCEPT ![k] = o.pods]
        /\ queue' = IF WatchFilter(jobs'[k]) THEN queue \cup {k} ELSE queue
    /\ ForgetCall /\ ForgetPass
    /\ UNCHANGED << specUUID, nextId, platform, minted, faults, failureReason >>
    /\ UNCHANGED sshVars

\* The pods of a Job are deleted (by hand, by eviction, or by the garbage
\* collector after the Job is gone).
PodsDeleted(k) ==
    /\ pods[k] # << >>
    /\ pods' = [pods EXCEPT ![k] = << >>]
    /\ ForgetCall /\ ForgetPass
    /\ UNCHANGED << specUUID, nextId, platform, jobs, queue, minted, faults, failureReason >>
    /\ UNCHANGED sshVars

\* A Job is deleted by someone other than the watcher.
JobDeleted(k) ==
    /\ jobs[k].live
    /\ jobs' = [jobs EXCEPT ![k] = NoJob]
    /\ ForgetCall /\ ForgetPass
    /\ UNCHANGED << specUUID, nextId, platform, pods, queue, minted, faults, failureReason >>
    /\ UNCHANGED sshVars

\* The Job objects anyone may store under a name: the Job the builder makes
\* for the name, or one that differs from it in the namespace, the
\* managed-by label, the build-name label or the provisioner-id label; with
\* no condition yet, or with a terminal one.
WatchedName == 1

JobVariants(k, sel) ==
    LET built == [ShellJobBuilderBuild(k, "echo hello") EXCEPT !.selKey = sel]
    IN  { [o EXCEPT !.conds = c] :
            o \in { built,
                    [built EXCEPT !.ns = "default"],
                    [built EXCEPT !.managedBy = "someone-else"],
                    [built EXCEPT !.buildName = ""],
                    [built EXCEPT !.uuid = NoId] },
            c \in { << >>, << Complete >>, << Failed >> } }

\* Someone creates or updates the Job stored under the watched name; the
\* change event passes through the filter of SetupWithManager into the
\* queue, or is dropped by it.
JobWritten ==
    /\ \E obj \in JobVariants(WatchedName, platform) :
        /\ obj # jobs[WatchedName]
        /\ jobs' = [jobs EXCEPT ![WatchedName] = obj]
        /\ queue' = IF WatchFilter(obj) THEN queue \cup {WatchedName} ELSE queue
    /\ ForgetCall /\ ForgetPass
    /\ UNCHANGED << specUUID, nextId, platform, pods, minted, faults, failureReason >>
    /\ UNCHANGED sshVars

(***************************************************************************)
(* The watcher: ShellJobController.reconcileJobs and what it calls.        *)
(* Every store call of a reconcile is a step of its own, so that the       *)
(* cluster can change between two calls; the code between two store calls  *)
(* belongs to the step of the call before it.                              *)
(***************************************************************************)
\* Resolving build and provisioner identity from the Job's metadata
\* (getActionTypeFromJob, getContainerImageFromJob).
ClusterDeleteAction == "cluster-delete"

ResolveIdentity(job) ==
    IF job.buildName # "" /\ job.uuid # NoId
    THEN [err |-> Nil, action |-> "provision"]
    ELSE [err |-> << "unknown identity" >>, action |-> ""]

\* job.Status.Conditions[0].Type: the condition the switch looks at.
LastCondition(conds) == conds[Len(conds)]
DecidingCondition(conds) == conds[1]

\* Lines 127-140: what reconcileJobs does with the conditions of the Job it
\* got: nothing when there are none, else the case of the first one.
SwitchNoConditionsAsComplete(conds) ==
    IF Len(conds) = 0 THEN "complete"
    ELSE IF DecidingCondition(conds) = Complete THEN "complete"
    ELSE IF DecidingCondition(conds) = Failed THEN "failed"
    ELSE "unrecognized"
SwitchOnCondition(conds) ==
    IF Len(conds) = 0 THEN "ignore"
    ELSE IF DecidingCondition(conds) = Complete THEN "complete"
    ELSE IF DecidingCondition(conds) = Failed THEN "failed"
    ELSE "unrecognized"

\* refreshedJob.Spec.Selector.MatchLabels[key]: the uid of the Job under the
\* key its selector has, the empty string (NoId) under any other key.
MatchLabel(job, key) == IF job.selKey = key THEN job.uuid ELSE NoId

\* Pods(namespace).List with the label selector key=value: the pods of Job
\* `value` carry its uid under the key the platform uses.
ListPods(allPods, plat, key, value) ==
    IF value # NoId /\ key = plat THEN allPods[value] ELSE << >>

\* podListLookup: the primary label key, and the alternate one when the
\* selector has no value for the primary.
podListLookup(allPods, plat, refreshedJob) ==
    LET v1 == MatchLabel(refreshedJob, "controller-uid")
        key == IF v1 = NoId THEN "batch.kubernetes.io/controller-uid"
                            ELSE "controller-uid"
        value == MatchLabel(refreshedJob, key)
    IN  ListPods(allPods, plat, key, value)

\* getPodByJob, after both of its calls succeeded: the first pod listed, or
\* nil (the empty sequence) and a nil error when none is listed.
getPodByJobNotFound(podList) ==
    IF Len(podList) > 0 THEN [pod |-> << podList[1] >>, err |-> Nil]
    ELSE [pod |-> << >>, err |-> ErrNotFound]
getPodByJob(podList) ==
    IF Len(podList) > 0 THEN [pod |-> << podList[1] >>, err |-> Nil]
    ELSE [pod |-> << >>, err |-> Nil]

\* GetTerminatedContainersStatusesByPod: container name -> terminated state,
\* init containers first, then main containers (a later entry of the same
\* name overwrites an earlier one); a nil pod gives the empty map.
StatusesOf(containers) ==
    LET all == SelectSeq(containers, LAMBDA s : s.term)
        last(n) == CHOOSE i \in 1..Len(all) :
                       /\ all[i].name = n
                       /\ \A j \in (i + 1)..Len(all) : all[j].name # n
    IN  { [name |-> n, exit |-> all[last(n)].exit] :
              n \in { all[i].name : i \in 1..Len(all) } }

MainContainersOnly(pod) ==
    IF pod = << >> THEN {} ELSE StatusesOf(pod[1].main)
GetTerminatedContainersStatusesByPod(pod) ==
    IF pod = << >> THEN {} ELSE StatusesOf(pod[1].init \o pod[1].main)

\* GetTerminatedContainersStatusesByJob, when getPodByJob returned err # nil:
\* the error it returns and whether it deletes the Job first.
StatusesByJobErrorAsPodGone(err) ==
    IF IsNotFound(err) THEN [err |-> err, del |-> FALSE]
    ELSE [err |-> Nil, del |-> TRUE]
StatusesByJobError(err) ==
    IF IsNotFound(err) THEN [err |-> err, del |-> FALSE]
    ELSE IF IsPodControlledByJobNotFound(err) THEN [err |-> Nil, del |-> TRUE]
    ELSE [err |-> Wrap("unknown issue", err), del |-> FALSE]

\* processFailedScanJob from r.Cache.DeleteJob to the end of the loop over
\* the statuses: the failure records it hands to the sink and the error it
\* returns.  A status with exit code 0 is skipped.  The loop visits the map
\* in no fixed order and stops at the first record the sink refuses, so any
\* proper subset may have been recorded.
SkipEveryStatus(statuses) == {}
NonZero(statuses) == { s.name : s \in { t \in statuses : t.exit # 0 } }

ReportFailures(statuses, mayFail) ==
    { [emit |-> NonZero(statuses), err |-> Nil] }
    \cup (IF mayFail
          THEN { [emit |-> {}, err |-> ErrCacheDelete] }
               \cup { [emit |-> e, err |-> ErrSetCache] :
                        e \in (SUBSET NonZero(statuses)) \ { NonZero(statuses) } }
          ELSE {})

\* The outcome sink (r.setCache with cache.StateError): a failure record it
\* takes surfaces as failureReason/failureMessage of the ProvisionerSpec.
FailureRecorded == "scanjob failed"

setCache(reason, emit) == IF emit # {} THEN FailureRecorded ELSE reason

\* deleteJob: r.Client.Delete with background propagation; "not found" is
\* success.
deleteJobStrict(store, key, callErr) ==
    IF callErr # Nil
    THEN [err |-> Wrap("deleting job", callErr), out |-> "err", store |-> store]
    ELSE IF ~store[key].live
    THEN [err |-> Wrap("deleting job", ErrNotFound), out |-> "notfound",
          store |-> store]
    ELSE [err |-> Nil, out |-> "ok", store |-> [store EXCEPT ![key] = NoJob]]
deleteJob(store, key, callErr) ==
    IF callErr # Nil
    THEN [err |-> Wrap("deleting job", callErr), out |-> "err", store |-> store]
    ELSE IF ~store[key].live
    THEN [err |-> Nil, out |-> "notfound", store |-> store]
    ELSE [err |-> Nil, out |-> "ok", store |-> [store EXCEPT ![key] = NoJob]]

\* The reconcile returns: an error puts the request back on the queue.
Return(pass, err) ==
    /\ w' = [pass EXCEPT !.pc = "idle", !.res = err]
    /\ queue' = IF err # Nil THEN queue \cup {pass.key} ELSE queue

Goto(pass, pc) ==
    /\ w' = [pass EXCEPT !.pc = pc]
    /\ queue' = queue

\* A worker takes a request from the queue (one reconcile at a time).
WatcherStart(k) ==
    /\ w.pc = "idle"
    /\ k \in queue
    /\ queue' = queue \ {k}
    /\ w' = [IdlePass EXCEPT !.pc = "get", !.key = k, !.res = << "pending" >>]
    /\ ForgetCall
    /\ UNCHANGED << specUUID, nextId, platform, jobs, pods, minted, faults, failureReason >>
    /\ UNCHANGED sshVars

\* r.Client.Get, the check for conditions and the switch on the first one.
WatcherGet ==
    /\ w.pc = "get"
    /\ LET p == [w EXCEPT !.calls = @ + 1]
           job == jobs[w.key]
       IN  \/ /\ faults > 0
              /\ faults' = faults - 1
              /\ Return([p EXCEPT !.fault = "get"],
                        Wrap("getting job from cache", ErrStore))
           \/ /\ faults' = faults
              /\ IF ~job.live
                 THEN Return([p EXCEPT !.nf = "get"], Nil)
                 ELSE IF SwitchOnCondition(job.conds) = "ignore"
                 THEN Return(p, Nil)
                 ELSE LET q == [p EXCEPT !.conds = job.conds]
                          id == ResolveIdentity(job)
                      IN  IF SwitchOnCondition(job.conds) = "complete"
                          THEN Goto(q, "delete")
                          ELSE IF SwitchOnCondition(job.conds) = "failed"
                          THEN IF id.err # Nil THEN Return(q, id.err)
                               ELSE IF id.action = ClusterDeleteAction
                               THEN Goto(q, "delete")
                               ELSE Goto(q, "refetch")
                          ELSE Return(q, ErrUnrecognized)
    /\ ForgetCall
    /\ UNCHANGED << specUUID, nextId, platform, jobs, pods, minted, failureReason >>
    /\ UNCHANGED sshVars

\* getPodByJob: r.Clientset.BatchV1().Jobs(ns).Get, the re-fetch of the Job.
WatcherRefetch ==
    /\ w.pc = "refetch"
    /\ LET p == [w EXCEPT !.calls = @ + 1]
       IN  \/ /\ faults > 0
              /\ faults' = faults - 1
              /\ Return([p EXCEPT !.fault = "refetch"],
                        StatusesByJobError(ErrStore).err)
           \/ /\ faults' = faults
              /\ IF ~jobs[w.key].live
                 THEN Return([p EXCEPT !.nf = "refetch"],
                             StatusesByJobError(ErrNotFound).err)
                 ELSE Goto([p EXCEPT !.refreshed = jobs[w.key]], "list")
    /\ ForgetCall
    /\ UNCHANGED << specUUID, nextId, platform, jobs, pods, minted, failureReason >>
    /\ UNCHANGED sshVars

\* getPodByJob: the pod list (under the selector of the re-fetched Job);
\* then GetTerminatedContainersStatusesByJob and the failure records of
\* processFailedScanJob.
WatcherList ==
    /\ w.pc = "list"
    /\ LET p == [w EXCEPT !.calls = @ + 1]
       IN  \/ /\ faults > 0
              /\ faults' = faults - 1
              /\ Return([p EXCEPT !.fault = "list"],
                        StatusesByJobError(ErrStore).err)
              /\ jobs' = jobs
              /\ failureReason' = failureReason
           \/ LET podList == podListLookup(pods, platform, w.refreshed)
                  got == getPodByJob(podList)
                  h == StatusesByJobError(got.err)
                  d == deleteJob(jobs, w.key, Nil)
              IN  IF got.err # Nil /\ ~h.del
                  THEN /\ Return([p EXCEPT !.podList = podList,
                                           !.nf = IF IsNotFound(got.err)
                                                  THEN "list" ELSE @],
                                 h.err)
                       /\ UNCHANGED << jobs, faults, failureReason >>
                  ELSE IF got.err # Nil /\ d.err # Nil
                  THEN /\ Return([p EXCEPT !.podList = podList], d.err)
                       /\ UNCHANGED << jobs, faults, failureReason >>
                  ELSE \E r \in ReportFailures(
                                  GetTerminatedContainersStatusesByPod(got.pod),
                                  faults > 0) :
                         LET q == [p EXCEPT
                                     !.looked = TRUE, !.podList = podList,
                                     !.sink = IF r.err # Nil THEN "fail" ELSE "ok",
                                     !.emitted = [c \in CNames |->
                                                   IF c \in r.emit THEN 1 ELSE 0]]
                         IN  /\ jobs' = IF got.err # Nil THEN d.store ELSE jobs
                             /\ faults' = IF r.err # Nil THEN faults - 1 ELSE faults
                             /\ failureReason' = setCache(failureReason, r.emit)
                             /\ IF r.err # Nil THEN Return(q, r.err)
                                ELSE Goto(q, "delete")
    /\ ForgetCall
    /\ UNCHANGED << specUUID, nextId, platform, pods, minted >>
    /\ UNCHANGED sshVars

\* processCompleteScanJob and the end of processFailedScanJob: deleteJob.
WatcherDelete ==
    /\ w.pc = "delete"
    /\ \E callErr \in {Nil, ErrStore} :
        /\ callErr # Nil => faults > 0
        /\ faults' = IF callErr # Nil THEN faults - 1 ELSE faults
        /\ LET d == deleteJob(jobs, w.key, callErr)
           IN  /\ jobs' = d.store
               /\ Return([w EXCEPT !.calls = @ + 1, !.del = d.out,
                                   !.nf = IF d.out = "notfound" THEN "delete" ELSE @,
                                   !.fault = IF d.out = "err" THEN "delete" ELSE @],
                         d.err)
    /\ ForgetCall
    /\ UNCHANGED << specUUID, nextId, platform, pods, minted, failureReason >>
    /\ UNCHANGED sshVars

Next ==
    \/ Ensure
    \/ SpecWithoutUUID
    \/ \E k \in Ids : JobFinishes(k)
    \/ \E k \in Ids : PodsDeleted(k)
    \/ \E k \in Ids : JobDeleted(k)
    \/ \E k \in Ids : WatcherStart(k)
    \/ WatcherGet
    \/ WatcherRefetch
    \/ WatcherList
    \/ WatcherDelete

Spec == Init /\ [][Next]_vars

\* The watcher alone, on a store that anyone writes Jobs to.
WatchNext ==
    \/ JobWritten
    \/ JobDeleted(WatchedName)
    \/ WatcherStart(WatchedName)
    \/ WatcherGet
    \/ WatcherRefetch
    \/ WatcherList
    \/ WatcherDelete

WatchSpec == Init /\ [][WatchNext]_vars

\* The scheduling layer runs every step of a reconcile in flight, and its
\* queue is first-in first-out: no queued request waits forever while others
\* are taken.
FairSpec ==
    /\ Spec
    /\ \A k \in Ids : SF_vars(WatcherStart(k))
    /\ WF_vars(WatcherGet)
    /\ WF_vars(WatcherRefetch)
    /\ WF_vars(WatcherList)
    /\ WF_vars(WatcherDelete)

(***************************************************************************)
(* The SSH client: Validate, Connect, keepAlive and Disconnect.            *)
(* Each call of dial, each wait of a goroutine and each section under      *)
(* closeMutex is a step of its own.                                        *)
(***************************************************************************)
\* SSHClient.Validate
ValidateEitherMissing(c) ==
    IF c.user = "" THEN ErrInvalidUsername
    ELSE IF c.password = "" \/ c.key = "" THEN ErrInvalidAuth
    ELSE Nil
Validate(c) ==
    IF c.user = "" THEN ErrInvalidUsername
    ELSE IF c.password = "" /\ c.key = "" THEN ErrInvalidAuth
    ELSE Nil

\* readPrivateKey: cssh.ParsePrivateKey fails on a key it cannot parse.
readPrivateKey(key) == IF key = "good-key" THEN Nil ELSE ErrParseKey

\* Connect, lines 183-193: the auth type handed to getAuth.
ChooseAuthPasswordFirst(c) ==
    IF c.password # "" THEN PasswordAuth
    ELSE IF c.key # "" THEN KeyAuth
    ELSE "none"
ChooseAuth(c) ==
    IF c.key # "" THEN KeyAuth
    ELSE IF c.password # "" THEN PasswordAuth
    ELSE "none"

\* getAuth for the chosen type: the error, the calls of readPrivateKey and
\* the auth method obtained.
getAuthFallsBackToPassword(c, authType) ==
    IF authType = KeyAuth /\ readPrivateKey(c.key) # Nil /\ c.password # ""
    THEN [err |-> Nil, keyReads |-> 1, auth |-> PasswordAuth]
    ELSE IF authType = KeyAuth
    THEN [err |-> readPrivateKey(c.key), keyReads |-> 1,
          auth |-> IF readPrivateKey(c.key) = Nil THEN KeyAuth ELSE "none"]
    ELSE [err |-> Nil, keyReads |-> 0, auth |-> authType]
getAuth(c, authType) ==
    IF authType = KeyAuth
    THEN [err |-> readPrivateKey(c.key), keyReads |-> 1,
          auth |-> IF readPrivateKey(c.key) = Nil THEN KeyAuth ELSE "none"]
    ELSE [err |-> Nil, keyReads |-> 0, auth |-> authType]

\* Connect up to the call of dial (lines 179-206): Validate, then getAuth.
ConnectPrepareAuthFirst(c) ==
    LET a == getAuth(c, ChooseAuth(c))
    IN  IF a.err # Nil THEN a
        ELSE IF Validate(c) # Nil THEN [a EXCEPT !.err = Validate(c)]
        ELSE a
ConnectPrepare(c) ==
    IF Validate(c) # Nil
    THEN [err |-> Validate(c), keyReads |-> 0, auth |-> "none"]
    ELSE getAuth(c, ChooseAuth(c))

\* Connect, lines 208-213: what follows the return of dial: the error ends
\* the call, a connection is stored as the session handle.
AfterDialIgnoresError(cl, conn, err) ==
    [client |-> [cl EXCEPT !.cryptoClient = conn], err |-> Nil, proceed |-> TRUE]
AfterDial(cl, conn, err) ==
    IF err # Nil THEN [client |-> cl, err |-> err, proceed |-> FALSE]
    ELSE [client |-> [cl EXCEPT !.cryptoClient = conn], err |-> Nil,
          proceed |-> TRUE]

\* Connect, line 221: whether a keepAlive goroutine is started.
StartsKeepAlive(cl) == cl.keepAlive > 0

Free(t) == thr[t].pc \in {"idle", "done"}

\* The call that has returned is forgotten at the next step of anyone.
Forget(call) == IF call.pc = "done" THEN NoOp ELSE call

\* The caller that runs WaitForSSH.
Waiter == 1

\* WaitForSSH, line 499: the sleep between two attempts.
SleepSeconds == 2

\* WaitForSSH, line 495.
TimedOutBeforeNextAttempt(timePassed, maxWait) == timePassed + SleepSeconds >= maxWait
TimedOut(timePassed, maxWait) == timePassed >= maxWait

\* WaitForSSH, lines 488-499: its call of Connect, and what it does when
\* Connect (or the deferred Disconnect) returns: nil ends the loop, an error
\* is dropped and the elapsed time decides between ErrTimeout and a sleep.
WaitForSSHAfterConfigError(t, call) ==
    LET mine == t = Waiter /\ wfs.pc \in {"connect", "disconnect"}
        a == IF mine /\ wfs.pc = "connect" /\ Free(t)
             THEN [wfs EXCEPT !.attempts = @ + 1] ELSE wfs
    IN  IF ~(mine /\ call.pc = "done") THEN a
        ELSE IF wfs.pc = "disconnect" THEN [a EXCEPT !.pc = "done", !.err = Nil]
        ELSE IF call.err = Nil THEN [a EXCEPT !.pc = "disconnect"]
        ELSE IF call.err \in {ErrInvalidUsername, ErrInvalidAuth}
             THEN [a EXCEPT !.pc = "done", !.err = call.err]
        ELSE IF TimedOut(now - a.start, a.maxWait)
             THEN [a EXCEPT !.pc = "done", !.err = ErrTimeout]
        ELSE [a EXCEPT !.pc = "sleep"]
WaitForSSHAfter(t, call) ==
    LET mine == t = Waiter /\ wfs.pc \in {"connect", "disconnect"}
        a == IF mine /\ wfs.pc = "connect" /\ Free(t)
             THEN [wfs EXCEPT !.attempts = @ + 1] ELSE wfs
    IN  IF ~(mine /\ call.pc = "done") THEN a
        ELSE IF wfs.pc = "disconnect" THEN [a EXCEPT !.pc = "done", !.err = Nil]
        ELSE IF call.err = Nil THEN [a EXCEPT !.pc = "disconnect"]
        ELSE IF TimedOut(now - a.start, a.maxWait)
             THEN [a EXCEPT !.pc = "done", !.err = ErrTimeout]
        ELSE [a EXCEPT !.pc = "sleep"]

\* Caller t moves on to the call state `call`.
Step(t, call) ==
    /\ thr' = [u \in Callers |-> IF u = t THEN call ELSE Forget(thr[u])]
    /\ wfs' = WaitForSSHAfter(t, call)
    /\ UNCHANGED << now, up, down, rot, ev >>

Done(call, err) == [call EXCEPT !.pc = "done", !.err = err]

\* A call of Validate.
ValidateCall(t) ==
    /\ Free(t)
    /\ Step(t, Done([NoOp EXCEPT !.op = "Validate", !.seen = creds],
                    Validate(creds)))
    /\ UNCHANGED << creds, client, signals, conns, tasks >>
    /\ UNCHANGED ctlVars

\* Connect, up to the call of dial.
ConnectStart(t) ==
    /\ Free(t)
    /\ LET r == ConnectPrepare(creds)
           call == [NoOp EXCEPT !.op = "Connect", !.seen = creds,
                                !.keyReads = r.keyReads, !.auth = r.auth]
       IN  Step(t, IF r.err # Nil THEN Done(call, r.err)
                   ELSE [call EXCEPT !.pc = "dial"])
    /\ UNCHANGED << creds, client, signals, conns, tasks >>
    /\ UNCHANGED ctlVars

\* Connect: dial returns a connection or the transport's error.
ConnectDial(t) ==
    /\ thr[t].pc = "dial"
    /\ \E err \in {Nil, ErrDial} :
        /\ err = Nil => conns < MaxConns
        /\ LET conn == IF err = Nil THEN conns + 1 ELSE 0
               r == AfterDial(client, conn, err)
               call == [thr[t] EXCEPT !.dials = @ + 1, !.dialErr = err,
                                      !.stored = r.client.cryptoClient
                                                   # client.cryptoClient]
           IN  /\ conns' = IF err = Nil THEN conns + 1 ELSE conns
               /\ client' = r.client
               /\ Step(t, IF r.proceed THEN [call EXCEPT !.pc = "lock"]
                           ELSE Done(call, r.err))
    /\ UNCHANGED << creds, signals, tasks >>
    /\ UNCHANGED ctlVars

\* Connect, lines 215-224, under closeMutex: make the disconnect signal if
\* there is none, start keepAlive if configured, return nil.
ConnectLocked(t) ==
    /\ thr[t].pc = "lock"
    /\ LET make == client.close = 0
           go == StartsKeepAlive(client)
       IN  /\ client' = [client EXCEPT !.close = IF make THEN signals.next ELSE @]
           /\ signals' = [signals EXCEPT !.next = IF make THEN @ + 1 ELSE @]
           /\ tasks' = IF go THEN Append(tasks, [pc |-> "select", ch |-> 0])
                              ELSE tasks
           /\ Step(t, Done([thr[t] EXCEPT !.signal = make,
                                          !.started = IF go THEN Len(tasks) + 1
                                                            ELSE 0],
                           Nil))
    /\ UNCHANGED << creds, conns >>
    /\ UNCHANGED ctlVars

\* Disconnect, lines 247-249: the select on client.close, outside the mutex:
\* a receive from a closed channel ends the call, a nil or open channel
\* leaves the default branch.
DisconnectSelect(t) ==
    /\ Free(t)
    /\ LET call == [NoOp EXCEPT !.op = "Disconnect"]
       IN  Step(t, IF client.close # 0 /\ client.close \in signals.closed
                   THEN Done(call, Nil)
                   ELSE [call EXCEPT !.pc = "close"])
    /\ UNCHANGED << creds, client, signals, conns, tasks >>
    /\ UNCHANGED ctlVars

ErrPanicClose == << "panic: close of nil or closed channel" >>

\* Disconnect, lines 253-256: close the signal if there is one, and forget it.
\* close() of a nil or of a closed channel panics.
CloseSignalUnchecked(cl, sg) ==
    [client |-> [cl EXCEPT !.close = 0],
     signals |-> [sg EXCEPT !.closed = @ \cup ({cl.close} \ {0})],
     closed |-> cl.close # 0,
     panic |-> cl.close = 0 \/ cl.close \in sg.closed]
CloseSignal(cl, sg) ==
    IF cl.close # 0
    THEN [client |-> [cl EXCEPT !.close = 0],
          signals |-> [sg EXCEPT !.closed = @ \cup {cl.close}],
          closed |-> TRUE,
          panic |-> cl.close \in sg.closed]
    ELSE [client |-> cl, signals |-> sg, closed |-> FALSE, panic |-> FALSE]

\* Disconnect, lines 250-256, under closeMutex.
DisconnectLocked(t) ==
    /\ thr[t].pc = "close"
    /\ LET r == CloseSignal(client, signals)
       IN  /\ signals' = r.signals
           /\ client' = r.client
           /\ Step(t, Done([thr[t] EXCEPT !.closed = r.closed],
                           IF r.panic THEN ErrPanicClose ELSE Nil))
    /\ UNCHANGED << creds, conns, tasks >>
    /\ UNCHANGED ctlVars

\* A step of a keepAlive goroutine: the callers' returned calls are forgotten.
TaskStep(i, task) ==
    /\ tasks' = [tasks EXCEPT ![i] = task]
    /\ thr' = [u \in Callers |-> Forget(thr[u])]
    /\ UNCHANGED << creds, client, signals, conns, now, wfs, up, down, rot, ev >>
    /\ UNCHANGED ctlVars

\* keepAlive enters its select: client.close is evaluated now.
TaskSelect(i) ==
    /\ i \in 1..Len(tasks)
    /\ tasks[i].pc = "select"
    /\ TaskStep(i, [pc |-> "wait", ch |-> client.close])

\* The ticker fires: SendRequest succeeds, or fails and keepAlive returns.
TaskTick(i) ==
    /\ i \in 1..Len(tasks)
    /\ tasks[i].pc = "wait"
    /\ \E sent \in BOOLEAN :
          TaskStep(i, [pc |-> IF sent THEN "select" ELSE "done", ch |-> 0])

\* The channel keepAlive waits on is closed: keepAlive returns.
TaskSignalled(i) ==
    /\ i \in 1..Len(tasks)
    /\ tasks[i].pc = "wait"
    /\ tasks[i].ch # 0
    /\ tasks[i].ch \in signals.closed
    /\ TaskStep(i, [pc |-> "done", ch |-> 0])

\* The controllers do not run while the client is exercised.
CtlUnused ==
    /\ specUUID = NoId
    /\ nextId = 1
    /\ platform = "controller-uid"
    /\ jobs = [k \in Ids |-> NoJob]
    /\ pods = [k \in Ids |-> << >>]
    /\ queue = {}
    /\ w = IdlePass
    /\ minted = {}
    /\ faults = MaxFaults
    /\ ens = NoCall
    /\ failureReason = NilStr

\* A client with any credentials, with or without keepalive configured.
SshInit ==
    /\ CtlUnused
    /\ creds \in Credentials
    /\ \E keepAlive \in {0, KeepAliveSeconds} : client = NewClient(keepAlive)
    /\ signals = [next |-> 1, closed |-> {}]
    /\ conns = 0
    /\ tasks = << >>
    /\ thr = [t \in Callers |-> NoOp]
    /\ now = 0
    /\ wfs = NoWait
    /\ up = NoUpload
    /\ down = NoDownload
    /\ rot = Unlocked
    /\ ev = NoEvent

SshNext ==
    \/ \E t \in Callers : ValidateCall(t)
    \/ \E t \in Callers : ConnectStart(t)
    \/ \E t \in Callers : ConnectDial(t)
    \/ \E t \in Callers : ConnectLocked(t)
    \/ \E t \in Callers : DisconnectSelect(t)
    \/ \E t \in Callers : DisconnectLocked(t)
    \/ \E i \in 1..MaxConns : TaskSelect(i)
    \/ \E i \in 1..MaxConns : TaskTick(i)
    \/ \E i \in 1..MaxConns : TaskSignalled(i)

SshSpec == SshInit /\ [][SshNext]_vars

\* The Go scheduler runs every goroutine that can run: a call in flight takes
\* its next step, a keepAlive goroutine enters its select, its ticker fires,
\* and a select whose signal is closed again and again ends up taking it.
SshFairSpec ==
    /\ SshSpec
    /\ \A t \in Callers :
          /\ WF_vars(ConnectDial(t))
          /\ WF_vars(ConnectLocked(t))
          /\ WF_vars(DisconnectLocked(t))
    /\ \A i \in 1..MaxConns :
          /\ WF_vars(TaskSelect(i))
          /\ WF_vars(TaskTick(i))
          /\ SF_vars(TaskSignalled(i))

(***************************************************************************)
(* Credential rotation: the setters and getters, under Credentials.mu, next *)
(* to callers of Validate and Connect.                                      *)
(***************************************************************************)
\* The strings a rotation sets.
Passwords == {"", "secret"}
Keys == {"", "good-key", "bad-key"}

\* The field of the credentials each method is about.
Setters == [SetSSHPassword |-> "password", SetSSHPrivateKey |-> "key"]
Getters == [GetSSHPassword |-> "password", GetSSHPrivateKey |-> "key"]

\* Lines 508 and 522: the assignment.
SetFieldClearsOthers(c, field, s) ==
    [f \in DOMAIN c |-> IF f = field THEN s ELSE IF f = "user" THEN c[f] ELSE ""]
SetField(c, field, s) == [c EXCEPT ![field] = s]

\* A step of a setter or getter.
CredStep(t, call, r) ==
    /\ thr' = [u \in Callers |-> IF u = t THEN call ELSE Forget(thr[u])]
    /\ rot' = r
    /\ UNCHANGED << client, signals, conns, tasks, now, wfs, up, down, ev >>
    /\ UNCHANGED ctlVars

\* A call of a setter or getter: it goes on to mu.Lock().
CredCall(t) ==
    /\ Free(t)
    /\ \/ \E op \in DOMAIN Setters :
             \E s \in IF Setters[op] = "password" THEN Passwords ELSE Keys :
                CredStep(t, [NoOp EXCEPT !.op = op, !.pc = "acquire", !.arg = s], rot)
       \/ \E op \in DOMAIN Getters :
             CredStep(t, [NoOp EXCEPT !.op = op, !.pc = "acquire"], rot)
    /\ UNCHANGED creds

\* Lines 507, 514, 521, 528: mu.Lock() returns once nobody holds the mutex.
CredLock(t) ==
    /\ thr[t].pc = "acquire"
    /\ rot.mu = 0
    /\ CredStep(t, [thr[t] EXCEPT !.pc = "held"], [rot EXCEPT !.mu = t])
    /\ UNCHANGED creds

\* Lines 508, 522.
SetWrite(t) ==
    /\ thr[t].pc = "held"
    /\ thr[t].op \in DOMAIN Setters
    /\ creds' = SetField(creds, Setters[thr[t].op], thr[t].arg)
    /\ CredStep(t, [thr[t] EXCEPT !.pc = "release"], rot)

\* Lines 509, 523: mu.Unlock(), and the setter returns.
SetUnlock(t) ==
    /\ thr[t].pc = "release"
    /\ thr[t].op \in DOMAIN Setters
    /\ CredStep(t, Done(thr[t], Nil),
                [rot EXCEPT !.mu = 0, !.last[Setters[thr[t].op]] = thr[t].arg])
    /\ UNCHANGED creds

\* Lines 516, 530: the return value is read.
GetRead(t) ==
    /\ thr[t].pc = "held"
    /\ thr[t].op \in DOMAIN Getters
    /\ CredStep(t, [thr[t] EXCEPT !.pc = "release",
                                  !.ret = creds[Getters[thr[t].op]]], rot)
    /\ UNCHANGED creds

\* Lines 515, 529: the deferred mu.Unlock(), and the getter returns.
GetUnlock(t) ==
    /\ thr[t].pc = "release"
    /\ thr[t].op \in DOMAIN Getters
    /\ CredStep(t, Done(thr[t], Nil), [rot EXCEPT !.mu = 0])
    /\ UNCHANGED creds

\* A client with any credentials and no keepalive, while no sshd answers
\* (dial has no connection left to establish, so every dial fails).
CredsInit ==
    /\ CtlUnused
    /\ creds \in Credentials
    /\ client = NewClient(0)
    /\ signals = [next |-> 1, closed |-> {}]
    /\ conns = MaxConns
    /\ tasks = << >>
    /\ thr = [t \in Callers |-> NoOp]
    /\ now = 0
    /\ wfs = NoWait
    /\ up = NoUpload
    /\ down = NoDownload
    /\ rot = Unlocked
    /\ ev = NoEvent

CredsNext ==
    \/ \E t \in Callers : CredCall(t)
    \/ \E t \in Callers : CredLock(t)
    \/ \E t \in Callers : SetWrite(t)
    \/ \E t \in Callers : SetUnlock(t)
    \/ \E t \in Callers : GetRead(t)
    \/ \E t \in Callers : GetUnlock(t)
    \/ \E t \in Callers : ValidateCall(t)
    \/ \E t \in Callers : ConnectStart(t)
    \/ \E t \in Callers : ConnectDial(t)

CredsSpec == CredsInit /\ [][CredsNext]_vars

(***************************************************************************)
(* WaitForSSH: the loop around Connect, and the deferred Disconnect.        *)
(* Connect returns at once; time passes in time.Sleep only.                 *)
(***************************************************************************)
\* WaitForSSH, line 485: start := time.Now().
WaitStart ==
    /\ wfs.pc = "idle"
    /\ \E maxWait \in 0..MaxWaitSeconds :
          wfs' = [NoWait EXCEPT !.pc = "connect", !.maxWait = maxWait,
                                !.start = now]
    /\ UNCHANGED << creds, client, signals, conns, tasks, thr, now, up, down,
                    rot, ev >>
    /\ UNCHANGED ctlVars

\* WaitForSSH, line 499: time.Sleep(2 * time.Second), then the next attempt.
WaitSleep ==
    /\ wfs.pc = "sleep"
    /\ now' = now + SleepSeconds
    /\ wfs' = [wfs EXCEPT !.pc = "connect", !.sleeps = @ + 1]
    /\ thr' = [u \in Callers |-> Forget(thr[u])]
    /\ UNCHANGED << creds, client, signals, conns, tasks, up, down, rot, ev >>
    /\ UNCHANGED ctlVars

WaitForSSHNext ==
    \/ WaitStart
    \/ wfs.pc = "connect" /\ ConnectStart(Waiter)
    \/ wfs.pc = "connect" /\ ConnectDial(Waiter)
    \/ wfs.pc = "connect" /\ ConnectLocked(Waiter)
    \/ WaitSleep
    \/ wfs.pc = "disconnect" /\ DisconnectSelect(Waiter)
    \/ wfs.pc = "disconnect" /\ DisconnectLocked(Waiter)
    \/ \E i \in 1..MaxConns : TaskSelect(i)
    \/ \E i \in 1..MaxConns : TaskTick(i)
    \/ \E i \in 1..MaxConns : TaskSignalled(i)

WaitForSSHSpec == SshInit /\ [][WaitForSSHNext]_vars

(***************************************************************************)
(* Text: strings are sequences of one-character strings, so that           *)
(* formatting, splitting and parsing are computed as the library computes   *)
(* them.                                                                   *)
(***************************************************************************)
Digits == << "0", "1", "2", "3", "4", "5", "6", "7", "8", "9" >>

\* strconv / fmt: the digits of n >= 0 in the given base.
RECURSIVE FormatInt(_, _)
FormatInt(n, base) ==
    IF n < base THEN << Digits[n + 1] >>
    ELSE FormatInt(n \div base, base) \o << Digits[(n % base) + 1] >>

\* fmt's %#o: octal with a leading 0 (no second 0 for the value 0).
FormatSharpOctal(n) == IF n = 0 THEN << "0" >> ELSE << "0" >> \o FormatInt(n, 8)

DigitValue(c) == CHOOSE d \in 0..9 : Digits[d + 1] = c
IsDigit(c, base) == \E d \in 0..(base - 1) : Digits[d + 1] = c

\* The value of a non-empty sequence of digits of the given base.
RECURSIVE DigitsValue(_, _)
DigitsValue(ds, base) ==
    IF ds = << >> THEN 0
    ELSE DigitsValue(SubSeq(ds, 1, Len(ds) - 1), base) * base
            + DigitValue(ds[Len(ds)])

\* The last index of c in s, 0 if there is none (strings.LastIndex + 1).
LastIndex(s, c) ==
    IF \E i \in 1..Len(s) : s[i] = c
    THEN CHOOSE i \in 1..Len(s) : s[i] = c /\ \A j \in (i + 1)..Len(s) : s[j] # c
    ELSE 0

\* The first index of c in s, 0 if there is none.
FirstIndex(s, c) ==
    IF \E i \in 1..Len(s) : s[i] = c
    THEN CHOOSE i \in 1..Len(s) : s[i] = c /\ \A j \in 1..(i - 1) : s[j] # c
    ELSE 0

RECURSIVE TrimSlashes(_)
TrimSlashes(s) ==
    IF s # << >> /\ s[Len(s)] = "/" THEN TrimSlashes(SubSeq(s, 1, Len(s) - 1))
    ELSE s

\* path.Base: the last element; trailing slashes are removed first; "." for
\* the empty path, "/" for a path of slashes only.
Base(p) ==
    IF p = << >> THEN << "." >>
    ELSE LET t == TrimSlashes(p)
         IN  IF t = << >> THEN << "/" >>
             ELSE SubSeq(t, LastIndex(t, "/") + 1, Len(t))

\* path.Dir: all but the last element, cleaned. (Clean is modelled for paths
\* without ".", ".." and doubled slashes: it drops the trailing slash.)
Dir(p) ==
    LET d == SubSeq(p, 1, LastIndex(p, "/"))
        t == TrimSlashes(d)
    IN  IF d = << >> THEN << "." >>
        ELSE IF t = << >> THEN << "/" >>
        ELSE t

\* strings.Split(s, sep) for a one-character sep.
RECURSIVE Split(_, _)
Split(s, sep) ==
    LET i == FirstIndex(s, sep)
    IN  IF i = 0 THEN << s >>
        ELSE << SubSeq(s, 1, i - 1) >> \o Split(SubSeq(s, i + 1, Len(s)), sep)

(***************************************************************************)
(* Upload: the writer and the invoker goroutines, the session's stdin and   *)
(* the remote scp in sink mode.                                            *)
(***************************************************************************)
\* Longest file content uploaded or downloaded.
MaxContentLen == 2

\* Writes the session's stdin takes before the remote reads (its window).
WindowChunks == 2

ContentBytes == {"x", "y"}
Contents == UNION { [1..n -> ContentBytes] : n \in 0..MaxContentLen }

\* 0644, 07 and 0.
Modes == {420, 7, 0}

\* "/t/f", "f", "/d/" and "/t/a b".
Paths == { << "/", "t", "/", "f" >>, << "f" >>, << "/", "d", "/" >>,
           << "/", "t", "/", "a", " ", "b" >> }

NUL == "\\x00"

ScpSink == << "/usr/bin/scp -t " >>

ErrNewSession == << "ssh: unexpected packet in response to channel open" >>
ErrWrite == << "EOF" >>
ErrExitStatus == << "Process exited with status 1" >>

\* Upload, line 422: errorChan := make(chan error, 2).
UploadErrorChanCap == 2

\* errorChan <- err: a send waits while the channel is full (an unbuffered
\* channel has no room until someone receives, which Upload does only after
\* wg.Wait()).
CanReportUnbuffered(errorChan) == Len(errorChan) < 0
CanReport(errorChan) == Len(errorChan) < UploadErrorChanCap

\* Upload, line 438: the header line.
UploadHeaderPlainOctal(mode, n, name) ==
    << "C" >> \o FormatInt(mode, 8) \o << " " >> \o FormatInt(n, 10)
        \o << " " >> \o name \o << "\n" >>
UploadHeader(mode, n, name) ==
    << "C" >> \o FormatSharpOctal(mode) \o << " " >> \o FormatInt(n, 10)
        \o << " " >> \o name \o << "\n" >>

\* A step of the Upload call.
UpStep(u) ==
    /\ up' = u
    /\ UNCHANGED << creds, client, signals, conns, tasks, thr, now, wfs, down,
                    rot, ev >>
    /\ UNCHANGED ctlVars

\* Upload, lines 400-427: read the content, open the session and its stdin
\* (any of which may fail and end the call), then start the two goroutines.
\* The remote scp waits for the end of its input (patient) or may exit
\* before (early).
UploadStart ==
    /\ up.pc = "idle"
    /\ \E content \in Contents, mode \in Modes, dst \in Paths,
          kind \in {"patient", "early"}, err \in {Nil, ErrNewSession} :
          UpStep([pc |-> IF err = Nil THEN "wait" ELSE "done",
                  content |-> content, mode |-> mode, dst |-> dst,
                  remoteDir |-> Dir(dst), remoteFileName |-> Base(dst),
                  remote |-> [kind |-> kind, state |-> "none", cmd |-> << >>],
                  stdin |-> << >>, unread |-> 0, closed |-> FALSE,
                  failed |-> FALSE,
                  writer |-> IF err = Nil THEN "header" ELSE "none",
                  invoker |-> IF err = Nil THEN "run" ELSE "none",
                  pending |-> [writer |-> Nil, invoker |-> Nil],
                  wg |-> IF err = Nil THEN 2 ELSE 0,
                  errorChan |-> << >>, reported |-> << >>,
                  err |-> err])

\* A Write on the session's stdin: it waits while the window is full and the
\* remote runs, fails once the remote has exited, and is taken otherwise.
CanWrite == up.remote.state = "exited" \/ up.unread < WindowChunks
Written(u, bytes) ==
    IF u.remote.state = "exited" THEN [u EXCEPT !.failed = TRUE]
    ELSE [u EXCEPT !.stdin = @ \o bytes, !.unread = @ + 1]

\* Writer, line 438: the header; Fprintf's error is dropped.
WriterHeader ==
    /\ up.pc = "wait"
    /\ up.writer = "header"
    /\ CanWrite
    /\ UpStep([Written(up, UploadHeader(up.mode, Len(up.content),
                                        up.remoteFileName))
                 EXCEPT !.writer = "copy"])

\* Writer, lines 439-443: io.Copy writes the content in one Write (none for
\* empty content); its error is the one the writer reports.
WriterCopy ==
    /\ up.pc = "wait"
    /\ up.writer = "copy"
    /\ up.content = << >> \/ CanWrite
    /\ LET u == IF up.content = << >> THEN up ELSE Written(up, up.content)
           bad == up.content # << >> /\ up.remote.state = "exited"
       IN  UpStep([u EXCEPT !.writer = IF bad THEN "report" ELSE "nul",
                            !.pending.writer = IF bad THEN ErrWrite ELSE Nil])

\* What errorChan <- err does to the call.
Reported(u, who) ==
    [u EXCEPT !.errorChan = Append(@, u.pending[who]),
              !.reported = Append(@, u.pending[who])]

\* Writer, line 441.
WriterReport ==
    /\ up.pc = "wait"
    /\ up.writer = "report"
    /\ CanReport(up.errorChan)
    /\ UpStep([Reported(up, "writer") EXCEPT !.writer = "wgdone"])

\* Writer, line 446: the closing NUL; Fprint's error is dropped.
WriterNul ==
    /\ up.pc = "wait"
    /\ up.writer = "nul"
    /\ CanWrite
    /\ UpStep([Written(up, << NUL >>) EXCEPT !.writer = "wgdone"])

\* Writer, line 435: the deferred wg.Done() runs first.
WriterDone ==
    /\ up.pc = "wait"
    /\ up.writer = "wgdone"
    /\ UpStep([up EXCEPT !.wg = @ - 1, !.writer = "close"])

\* Writer, lines 430-434: the deferred w.Close() runs last.
WriterClose ==
    /\ up.pc \in {"wait", "done"}
    /\ up.writer = "close"
    /\ UpStep([up EXCEPT !.closed = TRUE, !.writer = "finished"])

\* Invoker, line 451: session.Run starts the remote command.
InvokerRun ==
    /\ up.pc = "wait"
    /\ up.invoker = "run"
    /\ UpStep([up EXCEPT !.invoker = "wait",
                         !.remote.state = "running",
                         !.remote.cmd = ScpSink \o up.remoteDir])

\* Invoker, lines 450-454: session.Run returns when the remote has exited,
\* with an error for a non-zero status.
InvokerExit ==
    /\ up.pc = "wait"
    /\ up.invoker = "wait"
    /\ up.remote.state = "exited"
    /\ \E status \in {0, 1} :
          UpStep(IF status = 0
                 THEN [up EXCEPT !.invoker = "finished", !.wg = @ - 1]
                 ELSE [up EXCEPT !.invoker = "report",
                                 !.pending.invoker = ErrExitStatus])

\* Invoker, lines 452-453, then the deferred wg.Done().
InvokerReport ==
    /\ up.pc = "wait"
    /\ up.invoker = "report"
    /\ CanReport(up.errorChan)
    /\ UpStep([Reported(up, "invoker") EXCEPT !.invoker = "finished",
                                              !.wg = @ - 1])

\* The remote scp reads what was written to its stdin.
SinkReads ==
    /\ up.pc \in {"wait", "done"}
    /\ up.remote.state = "running"
    /\ up.unread > 0
    /\ UpStep([up EXCEPT !.unread = @ - 1])

\* The remote scp exits: a patient one at the end of its input, an early one
\* at any time.
SinkExits ==
    /\ up.pc \in {"wait", "done"}
    /\ up.remote.state = "running"
    /\ up.remote.kind = "patient" => up.closed /\ up.unread = 0
    /\ UpStep([up EXCEPT !.remote.state = "exited"])

\* Upload, lines 457-466: wg.Wait(), then the first error in errorChan, or nil.
UploadFirstError(errorChan) == IF errorChan # << >> THEN Head(errorChan) ELSE Nil

UploadReturn ==
    /\ up.pc = "wait"
    /\ up.wg = 0
    /\ UpStep([up EXCEPT !.pc = "done", !.err = UploadFirstError(up.errorChan),
                         !.errorChan = IF @ # << >> THEN Tail(@) ELSE @])

\* A connected client, as Upload and Download need it.
ScpInit ==
    /\ CtlUnused
    /\ creds = [user |-> "root", password |-> "secret", key |-> ""]
    /\ client = [NewClient(0) EXCEPT !.cryptoClient = 1]
    /\ signals = [next |-> 1, closed |-> {}]
    /\ conns = 1
    /\ tasks = << >>
    /\ thr = [t \in Callers |-> NoOp]
    /\ now = 0
    /\ wfs = NoWait
    /\ up = NoUpload
    /\ down = NoDownload
    /\ rot = Unlocked
    /\ ev = NoEvent

UploadNext ==
    \/ UploadStart
    \/ WriterHeader
    \/ WriterCopy
    \/ WriterReport
    \/ WriterNul
    \/ WriterDone
    \/ WriterClose
    \/ InvokerRun
    \/ InvokerExit
    \/ InvokerReport
    \/ SinkReads
    \/ SinkExits
    \/ UploadReturn

UploadSpec == ScpInit /\ [][UploadNext]_vars

\* Every goroutine that can run does, and the remote scp reads its input and
\* exits when it can.
UploadFairSpec ==
    /\ UploadSpec
    /\ WF_vars(WriterHeader) /\ WF_vars(WriterCopy) /\ WF_vars(WriterReport)
    /\ WF_vars(WriterNul) /\ WF_vars(WriterDone) /\ WF_vars(WriterClose)
    /\ WF_vars(InvokerRun) /\ WF_vars(InvokerExit) /\ WF_vars(InvokerReport)
    /\ WF_vars(SinkReads) /\ WF_vars(SinkExits)
    /\ WF_vars(UploadReturn)

(***************************************************************************)
(* Download: the ack-writer, the reader and the invoker goroutines, the     *)
(* session's stdin and stdout, and the remote scp in source mode.           *)
(***************************************************************************)
ErrSSHInvalidMessageLength == << "invalid message length" >>
ErrSyntax == << "strconv.ParseInt: invalid syntax" >>
ErrEOF == << "EOF" >>

ScpSource == << "/usr/bin/scp -f " >>

\* Download, line 289.
DownloadErrorChanCap == 3

\* The files a remote holds: one content of each length.
Payloads ==
    { [i \in 1..n |-> IF i % 2 = 1 THEN "x" ELSE "y"] : n \in 0..MaxContentLen }

\* The header lines a remote sends: "C0644 <n> f" for each length, and the
\* lines "C644 10", "X0644 10 f", "C0644 abc f" and "C0644 -1 f".
GoodHeader(n) ==
    << "C", "0", "6", "4", "4", " " >> \o FormatInt(n, 10) \o << " ", "f", "\n" >>
Headers ==
    { GoodHeader(n) : n \in 0..MaxContentLen } \cup
    { << "C", "6", "4", "4", " ", "1", "0", "\n" >>,
      << "X", "0", "6", "4", "4", " ", "1", "0", " ", "f", "\n" >>,
      << "C", "0", "6", "4", "4", " ", "a", "b", "c", " ", "f", "\n" >>,
      << "C", "0", "6", "4", "4", " ", "-", "1", " ", "f", "\n" >> }

\* A non-empty run of decimal digits.
IsDecimal(ds) == ds # << >> /\ \A i \in 1..Len(ds) : IsDigit(ds[i], 10)

\* strconv.ParseInt(s, 10, 64): an optional sign and decimal digits (the
\* lengths here are far from the 64-bit range).
ParseInt(s) ==
    LET signed == s # << >> /\ s[1] \in {"+", "-"}
        ds == IF signed THEN Tail(s) ELSE s
    IN  IF ~IsDecimal(ds) THEN [err |-> ErrSyntax, n |-> 0]
        ELSE [err |-> Nil,
              n |-> IF signed /\ s[1] = "-" THEN 0 - DigitsValue(ds, 10)
                    ELSE DigitsValue(ds, 10)]

\* Reader, lines 325-338: the line read (with its newline) is split at the
\* spaces and checked, then its second field is parsed.
ParseHeader(line) ==
    LET scpMsgs == Split(line, " ")
    IN  IF Len(scpMsgs) # 3 \/ Len(scpMsgs[1]) # 5 \/ scpMsgs[1][1] # "C"
        THEN [err |-> ErrSSHInvalidMessageLength, length |-> 0]
        ELSE IF ParseInt(scpMsgs[2]).err # Nil
        THEN [err |-> ParseInt(scpMsgs[2]).err, length |-> 0]
        ELSE [err |-> Nil, length |-> ParseInt(scpMsgs[2]).n]

\* Opening a pipe of the session fails (lines 279-287).
ErrPipe == << "ssh: StdinPipe or StdoutPipe after process started" >>

\* Download, lines 262-266: the deferred dst.Close() is registered first and
\* runs on every return (registered after NewSession, it would not run when
\* the session cannot be opened).
DownloadDeferredAfterSession(d) ==
    IF d.err = ErrNewSession THEN d ELSE [d EXCEPT !.dstCloses = @ + 1]
DownloadDeferred(d) == [d EXCEPT !.dstCloses = @ + 1]

\* A step of the Download call.
DownStep(d) ==
    /\ down' = d
    /\ UNCHANGED << creds, client, signals, conns, tasks, thr, now, wfs, up,
                    rot, ev >>
    /\ UNCHANGED ctlVars

\* Download, lines 261-292: open the session and its pipes (any of which may
\* fail and end the call, closing dst), then start the three goroutines,
\* against a remote that will send the given header and payload.
NewDownload(header, payload, kind, err) ==
    LET d == [pc |-> IF err = Nil THEN "wait" ELSE "done",
              remote |-> [kind |-> kind, state |-> "none", next |-> "header",
                          header |-> header, payload |-> payload,
                          cmd |-> << >>],
              acks |-> 0, stdinClosed |-> FALSE,
              out |-> << >>,
              ackWriter |-> IF err = Nil THEN "0" ELSE "none",
              reader |-> IF err = Nil THEN "header" ELSE "none",
              invoker |-> IF err = Nil THEN "run" ELSE "none",
              buf |-> << >>, line |-> << >>, length |-> 0,
              acksAtHeader |-> 0,
              dst |-> << >>, dstCloses |-> 0,
              pending |-> [reader |-> Nil, invoker |-> Nil],
              wg |-> IF err = Nil THEN 3 ELSE 0,
              errorChan |-> << >>, reported |-> << >>,
              err |-> err]
    IN  IF err = Nil THEN d ELSE DownloadDeferred(d)

\* A Download call. The remote scp sends a header and a payload as the
\* protocol says (scp), or keeps writing after its header (flood).
DownloadStart ==
    /\ down.pc = "idle"
    /\ \E header \in Headers, payload \in Payloads, kind \in {"scp", "flood"},
          err \in {Nil, ErrNewSession, ErrPipe} :
          DownStep(NewDownload(header, payload, kind, err))

\* Ack-writer, lines 306-308: one Fprint of a NUL; its error (the remote has
\* exited) is dropped.
AckNext == [a \in {"0", "1", "2"} |->
                IF a = "0" THEN "1" ELSE IF a = "1" THEN "2" ELSE "3"]
AckWrite ==
    /\ down.pc = "wait"
    /\ down.ackWriter \in {"0", "1", "2"}
    /\ DownStep([down EXCEPT !.ackWriter = AckNext[@],
                             !.acks = IF down.remote.state = "exited"
                                      THEN @ ELSE @ + 1])

\* Ack-writer, lines 298-302: the deferred ackPipe.Close() runs first.
AckClose ==
    /\ down.pc = "wait"
    /\ down.ackWriter = "3"
    /\ DownStep([down EXCEPT !.ackWriter = "wgdone", !.stdinClosed = TRUE])

\* Ack-writer, line 296: the deferred wg.Done() runs last.
AckDone ==
    /\ down.pc = "wait"
    /\ down.ackWriter = "wgdone"
    /\ DownStep([down EXCEPT !.ackWriter = "finished", !.wg = @ - 1])

\* The reader's bufio.Reader takes what the stdout pipe holds.
ReaderFill ==
    /\ down.pc = "wait"
    /\ \/ down.reader = "header" /\ FirstIndex(down.buf, "\n") = 0
       \/ down.reader = "copy" /\ Len(down.buf) < down.length
    /\ down.out # << >>
    /\ DownStep([down EXCEPT !.buf = @ \o Head(down.out), !.out = Tail(@)])

\* The stdout pipe is at its end: the remote has exited and nothing is left.
AtEOF == down.out = << >> /\ down.remote.state = "exited"

\* What errorChan <- err does to the call; the goroutine that sends returns
\* and its deferred wg.Done() runs.
DownReported(d, who) ==
    [d EXCEPT !.errorChan = Append(@, d.pending[who]),
              !.reported = Append(@, [who |-> who, err |-> d.pending[who]]),
              !.wg = @ - 1]

\* Reader, lines 320-338: ReadString('\n') returns the header line, or the
\* error at the end of the stream; the header is checked and parsed.
ReaderLine ==
    /\ down.pc = "wait"
    /\ down.reader = "header"
    /\ LET nl == FirstIndex(down.buf, "\n")
           line == SubSeq(down.buf, 1, nl)
           h == ParseHeader(line)
           d == [down EXCEPT !.acksAtHeader =
                                 IF down.ackWriter \in {"0", "1", "2"}
                                 THEN DigitValue(down.ackWriter) ELSE 3]
       IN  /\ nl > 0 \/ AtEOF
           /\ DownStep(
                IF nl = 0
                THEN [d EXCEPT !.reader = "report", !.pending.reader = ErrEOF]
                ELSE IF h.err # Nil
                THEN [d EXCEPT !.reader = "report", !.pending.reader = h.err,
                               !.line = line,
                               !.buf = SubSeq(@, nl + 1, Len(@))]
                ELSE [d EXCEPT !.reader = "copy", !.length = h.length,
                               !.line = line,
                               !.buf = SubSeq(@, nl + 1, Len(@))])

\* Reader, lines 341-345: io.CopyN copies length bytes to dst, or what there
\* is before the end of the stream, which is an error. For a negative length
\* it reads nothing and returns no error.
ReaderCopy ==
    /\ down.pc = "wait"
    /\ down.reader = "copy"
    /\ Len(down.buf) >= down.length \/ AtEOF
    /\ DownStep(
         IF down.length < 0
         THEN [down EXCEPT !.reader = "finished", !.wg = @ - 1]
         ELSE IF Len(down.buf) >= down.length
         THEN [down EXCEPT !.dst = SubSeq(down.buf, 1, down.length),
                           !.buf = SubSeq(@, down.length + 1, Len(@)),
                           !.reader = "finished", !.wg = @ - 1]
         ELSE [down EXCEPT !.dst = down.buf, !.buf = << >>,
                           !.reader = "report", !.pending.reader = ErrEOF])

\* Reader, lines 322, 329, 336, 343: errorChan <- err, return.
ReaderReport ==
    /\ down.pc = "wait"
    /\ down.reader = "report"
    /\ Len(down.errorChan) < DownloadErrorChanCap
    /\ DownStep([DownReported(down, "reader") EXCEPT !.reader = "finished"])

\* Invoker, line 352: session.Run starts the remote command.
SourceRun ==
    /\ down.pc = "wait"
    /\ down.invoker = "run"
    /\ DownStep([down EXCEPT !.invoker = "wait",
                             !.remote.state = "running",
                             !.remote.cmd = ScpSource])

\* Invoker, lines 349-355: session.Run returns when the remote has exited,
\* with an error for a non-zero status.
SourceExit ==
    /\ down.pc = "wait"
    /\ down.invoker = "wait"
    /\ down.remote.state = "exited"
    /\ DownStep(IF down.remote.next = "ok"
                THEN [down EXCEPT !.invoker = "finished", !.wg = @ - 1]
                ELSE [down EXCEPT !.invoker = "report",
                                  !.pending.invoker = ErrExitStatus])

\* Invoker, line 354.
SourceReport ==
    /\ down.pc = "wait"
    /\ down.invoker = "report"
    /\ Len(down.errorChan) < DownloadErrorChanCap
    /\ DownStep([DownReported(down, "invoker") EXCEPT !.invoker = "finished"])

\* The remote scp waits for an acknowledgement before each of its steps, and
\* gives up when its stdin ends without one; a Write on its stdout waits
\* while the window is full.
Acked == down.acks > 0
Unacked == down.acks = 0 /\ down.stdinClosed
CanSend == Len(down.out) < WindowChunks
Exited(d, how) == [d EXCEPT !.remote.state = "exited", !.remote.next = how]

\* The remote scp sends its header, or fails before (no such file).
SenderHeader ==
    /\ down.pc \in {"wait", "done"}
    /\ down.remote.state = "running"
    /\ down.remote.next = "header"
    /\ \/ /\ Acked
          /\ CanSend
          /\ DownStep([down EXCEPT !.acks = @ - 1,
                                   !.out = Append(@, down.remote.header),
                                   !.remote.next = IF down.remote.kind = "scp"
                                                   THEN "payload" ELSE "flood"])
       \/ DownStep(Exited(down, "failed"))

\* The remote scp sends the file and the NUL that ends it.
SenderPayload ==
    /\ down.pc \in {"wait", "done"}
    /\ down.remote.state = "running"
    /\ down.remote.next = "payload"
    /\ \/ /\ Acked
          /\ CanSend
          /\ DownStep([down EXCEPT !.acks = @ - 1,
                                   !.out = Append(@, down.remote.payload
                                                        \o << NUL >>),
                                   !.remote.next = "end"])
       \/ /\ Unacked
          /\ DownStep(Exited(down, "failed"))

\* The remote scp exits after the last acknowledgement.
SenderEnd ==
    /\ down.pc \in {"wait", "done"}
    /\ down.remote.state = "running"
    /\ down.remote.next = "end"
    /\ \/ /\ Acked
          /\ DownStep([Exited(down, "ok") EXCEPT !.acks = @ - 1])
       \/ /\ Unacked
          /\ DownStep(Exited(down, "failed"))

\* A remote that keeps writing: it does not exit before its output is taken.
SenderFlood ==
    /\ down.pc \in {"wait", "done"}
    /\ down.remote.state = "running"
    /\ down.remote.next = "flood"
    /\ CanSend
    /\ DownStep([down EXCEPT !.out = Append(@, << "x" >>)])

\* Download, lines 358-365 and 262-266: wg.Wait(), then the first error in
\* errorChan, or nil; dst is closed on return.
DownloadReturn ==
    /\ down.pc = "wait"
    /\ down.wg = 0
    /\ DownStep(DownloadDeferred(
                  [down EXCEPT !.pc = "done",
                               !.err = UploadFirstError(down.errorChan),
                               !.errorChan = IF @ # << >> THEN Tail(@) ELSE @]))

DownloadNext ==
    \/ DownloadStart
    \/ AckWrite
    \/ AckClose
    \/ AckDone
    \/ ReaderFill
    \/ ReaderLine
    \/ ReaderCopy
    \/ ReaderReport
    \/ SourceRun
    \/ SourceExit
    \/ SourceReport
    \/ SenderHeader
    \/ SenderPayload
    \/ SenderEnd
    \/ SenderFlood
    \/ DownloadReturn

DownloadSpec == ScpInit /\ [][DownloadNext]_vars

(***************************************************************************)
(* Round trip: an Upload to a remote that stores what its scp in sink mode  *)
(* was sent, then a Download from the same remote, whose scp in source mode *)
(* replays the stored header line and the stored bytes.                     *)
(***************************************************************************)
\* What the sink was sent: the header line, and the bytes between it and
\* the closing NUL.
StoredHeader(stdin) == SubSeq(stdin, 1, FirstIndex(stdin, "\n"))
StoredBytes(stdin) == SubSeq(stdin, FirstIndex(stdin, "\n") + 1, Len(stdin) - 1)

\* The Upload has returned nil and the remote has taken all that was written.
Uploaded ==
    /\ up.pc = "done"
    /\ up.err = Nil
    /\ up.remote.kind = "patient"
    /\ up.remote.state = "exited"

\* A Download call after the Upload.
DownloadStored ==
    /\ Uploaded
    /\ down.pc = "idle"
    /\ \E err \in {Nil, ErrNewSession, ErrPipe} :
          DownStep(NewDownload(StoredHeader(up.stdin), StoredBytes(up.stdin),
                               "scp", err))

RoundTripNext ==
    \/ UploadNext
    \/ DownloadStored
    \/ AckWrite
    \/ AckClose
    \/ AckDone
    \/ ReaderFill
    \/ ReaderLine
    \/ ReaderCopy
    \/ ReaderReport
    \/ SourceRun
    \/ SourceExit
    \/ SourceReport
    \/ SenderHeader
    \/ SenderPayload
    \/ SenderEnd
    \/ DownloadReturn

RoundTripSpec == ScpInit /\ [][RoundTripNext]_vars

(***************************************************************************)
(* Event predicates (utils/predicates).                                     *)
(***************************************************************************)
\* Longest list of predicates handed to All.
MaxPredicates == 2

\* An object as the predicates see it: whether it has the paused annotation,
\* and the value of its watch label (NilStr = no such label).
Objects == [paused : BOOLEAN, watch : {NilStr, "", "a", "b"}]
NoObject == [paused |-> FALSE, watch |-> NilStr]

\* The label values a controller is configured with ("" = none).
LabelValues == {"", "a", "b"}

\* event.CreateEvent, DeleteEvent and GenericEvent have Object; UpdateEvent
\* has ObjectOld and ObjectNew.
Events ==
    { [type |-> type, Object |-> obj, ObjectOld |-> NoObject, ObjectNew |-> NoObject] :
        type \in {"create", "delete", "generic"}, obj \in Objects } \cup
    { [type |-> "update", Object |-> NoObject, ObjectOld |-> old, ObjectNew |-> new] :
        old \in Objects, new \in Objects }

\* utils.HasPaused: the object has the annotation PausedAnnotation.
HasPaused(obj) == obj.paused

\* utils.HasWatchLabel: the object has the label WatchLabel with this value.
HasWatchLabel(obj, labelValue) == obj.watch # NilStr /\ obj.watch = labelValue

processIfNotPaused(obj) == ~HasPaused(obj)

\* processIfLabelMatch, lines 116-130.
processIfLabelPresent(obj, labelValue) ==
    IF labelValue = "" THEN TRUE ELSE obj.watch # NilStr
processIfLabelMatch(obj, labelValue) ==
    IF labelValue = "" THEN TRUE ELSE HasWatchLabel(obj, labelValue)

\* The object each Func of ResourceNotPaused and ResourceHasFilterLabel
\* hands on: e.ObjectNew of an update, e.Object otherwise.
EventObject(e) == IF e.type = "update" THEN e.ObjectNew ELSE e.Object

ResourceNotPaused(e) == processIfNotPaused(EventObject(e))
ResourceHasFilterLabel(e, labelValue) ==
    processIfLabelMatch(EventObject(e), labelValue)

\* The predicates by name, as they are listed for All.
PredicateNames == {"ResourceNotPaused", "ResourceHasFilterLabel"}
Funcs(p, e, labelValue) ==
    IF p = "ResourceNotPaused" THEN ResourceNotPaused(e)
    ELSE ResourceHasFilterLabel(e, labelValue)

\* All, lines 20-67: false at the first predicate that returns false.
RECURSIVE All(_, _, _)
All(predicates, e, labelValue) ==
    IF predicates = << >> THEN TRUE
    ELSE IF ~Funcs(Head(predicates), e, labelValue) THEN FALSE
    ELSE All(Tail(predicates), e, labelValue)

\* ResourceNotPausedAndHasFilterLabel, lines 15-17: the list it gives to All.
ResourceNotPausedAndHasFilterLabel == << "ResourceNotPaused", "ResourceHasFilterLabel" >>

PredicateLists == UNION { [1..n -> PredicateNames] : n \in 0..MaxPredicates }

\* An event arrives at a filter made by All for a configured label value.
PredicateInit ==
    /\ CtlUnused
    /\ creds = NoCreds
    /\ client = NewClient(0)
    /\ signals = [next |-> 1, closed |-> {}]
    /\ conns = 0
    /\ tasks = << >>
    /\ thr = [t \in Callers |-> NoOp]
    /\ now = 0
    /\ wfs = NoWait
    /\ up = NoUpload
    /\ down = NoDownload
    /\ rot = Unlocked
    /\ \E e \in Events, labelValue \in LabelValues, predicates \in PredicateLists :
          ev = [pc |-> "event", e |-> e, labelValue |-> labelValue,
                predicates |-> predicates, allowed |-> FALSE]

\* The filter answers.
Filter ==
    /\ ev.pc = "event"
    /\ ev' = [ev EXCEPT !.pc = "done",
                        !.allowed = All(ev.predicates, ev.e, ev.labelValue)]
    /\ UNCHANGED << creds, client, signals, conns, tasks, thr, now, wfs, up, down,
                    rot >>
    /\ UNCHANGED ctlVars

PredicateSpec == PredicateInit /\ [][Filter]_vars

(***************************************************************************)
(* Properties.                                                             *)
(***************************************************************************)
Live == { k \in Ids : jobs[k].live }

\* A reconcile of the watcher has just returned.
Returned == w.pc = "idle" /\ w.key # NoId
ReturnedOn(c) == Returned /\ w.conds # << >> /\ w.conds[1] = c
NothingEmitted == \A c \in CNames : w.emitted[c] = 0

\* A Reconcile call has just returned (or panicked).
Called == ens.out # "none"

\* C1: at most one live ExecutionUnit exists for the (Build,
\* ProvisionerSpec) pair in every reachable state, whether or not the caller
\* persisted the UUID written back by Reconcile.
C1_AtMostOneLiveUnit == Cardinality(Live) <= 1

\* C2: Reconcile called with spec.UUID set is a no-op: it makes no
\* CreateOrUpdate call and leaves the store as it was (whether or not the Job
\* with that UUID still exists), leaves spec.UUID unchanged, and returns a
\* zero requeue delay and no error.
C2_EnsureWithIdIsNoOp ==
    (Called /\ ens.pre # NoId) =>
        /\ ens.out = "returned"
        /\ ens.err = Nil
        /\ ens.requeue = 0
        /\ ens.attempts = 0
        /\ jobs = ens.before
        /\ specUUID = ens.pre

\* Reconcile has just returned from a call with the UUID set whose Job is
\* gone from the store.
C2_Witness ==
    /\ Called
    /\ ens.pre # NoId
    /\ ~jobs[JobName(ens.pre)].live

\* C3: when Reconcile is called with spec.UUID unset and CreateOrUpdate
\* succeeds, the UUID is fresh (no Job applied earlier carried it), the
\* spec's UUID after the call is the UUID carried by the Job that the call
\* created, and the requeue delay returned is exactly 2 seconds.
C3_FreshIdWrittenBackAndRequeue ==
    (Called /\ ens.pre = NoId /\ ens.attempts = 1 /\ ens.err = Nil) =>
        /\ specUUID # NoId
        /\ specUUID \notin ens.earlier
        /\ \A k \in Ids : ens.before[k].uuid # specUUID
        /\ \E k \in Ids :
              /\ ~ens.before[k].live
              /\ jobs[k].live
              /\ jobs[k].uuid = specUUID
              /\ \A j \in Ids \ {k} : jobs[j] = ens.before[j]
        /\ ens.requeue = 2

\* A retry: Reconcile has just created the Job of a second run while the Job
\* of an earlier run was applied before.
C3_Witness ==
    /\ Called
    /\ ens.pre = NoId
    /\ ens.attempts = 1
    /\ ens.err = Nil
    /\ ens.earlier # {}

\* C4: when builder.Build() or CreateOrUpdate fails, Reconcile returns that
\* error unchanged after at most one CreateOrUpdate call, requests no requeue
\* delay, leaves spec.UUID unset and the store as it was.
C4_EnsureFailureSurfaced ==
    (Called /\ ens.pre = NoId /\ ens.fault # Nil) =>
        /\ ens.out = "returned"
        /\ ens.err = ens.fault
        /\ ens.requeue = 0
        /\ ens.attempts = (IF ens.fault = ErrStore THEN 1 ELSE 0)
        /\ specUUID = NoId
        /\ jobs = ens.before

\* Reconcile has just returned the error of a failed CreateOrUpdate call.
C4_Witness ==
    /\ Called
    /\ ens.pre = NoId
    /\ ens.fault = ErrStore
    /\ ens.attempts = 1

\* The Job stored under k has reached Complete or Failed.
HasTerminalCondition(k) ==
    \E i \in 1..Len(jobs[k].conds) : jobs[k].conds[i] \in {Complete, Failed}

\* C5: every Job that has a terminal condition (Complete or Failed) is
\* eventually deleted, under the fairness of FairSpec.
C5_TerminalUnitEventuallyDeleted ==
    \A k \in Ids : (jobs[k].live /\ HasTerminalCondition(k)) ~> ~jobs[k].live

\* C6: a reconcile of a Job whose first condition is Complete calls delete
\* and hands no failure record to the sink; unless the store fails the
\* delete call, the Job is gone and the reconcile returns success.
C6_CompleteIsDeleted ==
    ReturnedOn(Complete) =>
        /\ NothingEmitted
        /\ w.sink = "none"
        /\ w.del # "none"
        /\ w.del # "err" => (~jobs[w.key].live /\ w.res = Nil)

\* A reconcile of a Complete Job has just deleted it.
C6_Witness == ReturnedOn(Complete) /\ w.del = "ok"

\* The number of terminated containers named c with a non-zero exit code
\* in a pod.
FailedIn(pod, c) ==
    Cardinality({ i \in 1..Len(pod.init \o pod.main) :
                    LET s == (pod.init \o pod.main)[i]
                    IN  s.name = c /\ s.term /\ s.exit # 0 })

RECURSIVE FailedInAll(_, _)
FailedInAll(podList, c) ==
    IF podList = << >> THEN 0
    ELSE FailedIn(Head(podList), c) + FailedInAll(Tail(podList), c)

\* A reconcile of a Failed Job whose pod lookup succeeded and whose records
\* the sink took, up to the delete call.
FailedPassReported == ReturnedOn(Failed) /\ w.looked /\ w.sink = "ok"

C8_OtherFirstConditionIsError ==
    (Returned /\ w.conds # << >> /\ w.conds[1] \notin {Complete, Failed}) =>
        /\ w.res = ErrUnrecognized
        /\ w.calls = 1
        /\ w.del = "none"
        /\ w.sink = "none"
        /\ NothingEmitted
        /\ jobs[w.key].live
        /\ jobs[w.key].conds = w.conds
        /\ w.key \in queue

\* A reconcile has just returned on a Job whose first condition is not
\* terminal and whose second condition is Failed.
C8_Witness ==
    /\ Returned
    /\ w.conds = << Other, Failed >>
    /\ w.res = ErrUnrecognized

\* C9: a "not found" answer of the store to any get or delete of the Job
\* makes the reconcile return success; every other store error is returned.
C9_NotFoundIsSuccess ==
    Returned =>
        /\ w.nf # "none" => w.res = Nil
        /\ w.fault # "none" => w.res # Nil

\* The pod list call of a reconcile of a Failed Job succeeded and listed no
\* pod.
ListedNoPods ==
    /\ ReturnedOn(Failed)
    /\ w.calls >= 3
    /\ w.fault # "list"
    /\ w.podList = << >>

\* C10: when the pods of a Failed Job are gone, the reconcile emits no
\* failure record and, its sink calls succeeding, calls delete; unless the
\* store fails the delete call, the Job is gone and the reconcile returns
\* success.
C10_PodsGoneIsDeleted ==
    ListedNoPods =>
        /\ NothingEmitted
        /\ w.sink # "fail" =>
              /\ w.looked
              /\ w.del # "none"
              /\ w.del # "err" => (~jobs[w.key].live /\ w.res = Nil)

\* A reconcile of a Failed Job that listed no pod has just deleted the Job.
C10_Witness ==
    /\ ReturnedOn(Failed)
    /\ w.looked
    /\ w.podList = << >>
    /\ w.del = "ok"
    /\ w.res = Nil

\* A step of the watcher's reconcile in flight.
WatcherStep == w.pc # "idle" /\ w' # w

\* C11: when the lookup of a Failed Job's pods fails (the re-fetch of the Job
\* or the pod list call returns an error, the Job having vanished included),
\* the reconcile returns that error (wrapped as "unknown issue" unless it is
\* "not found"), hands nothing to the sink, makes no delete call and leaves
\* the store as it was; the request goes back to the queue.
C11_LookupErrorPropagated ==
    [][ (WatcherStep /\ w'.pc = "idle" /\ w.pc \in {"refetch", "list"}
           /\ (w'.fault \in {"refetch", "list"} \/ w'.nf = "refetch")) =>
          /\ w'.res = (IF w'.nf = "refetch" THEN ErrNotFound
                       ELSE Wrap("unknown issue", ErrStore))
          /\ \A c \in CNames : w'.emitted[c] = 0
          /\ w'.sink = "none"
          /\ w'.del = "none"
          /\ jobs' = jobs
          /\ failureReason' = failureReason
          /\ w.key \in queue' ]_vars

\* The pod list call of a reconcile of a Failed Job has just failed and the
\* Job is still in the store.
C11_Witness ==
    /\ ReturnedOn(Failed)
    /\ w.fault = "list"
    /\ w.res = Wrap("unknown issue", ErrStore)
    /\ jobs[w.key].live

\* A reconcile has just returned on a Job it found without conditions.
ReturnedOnNoConditions ==
    /\ Returned
    /\ w.calls = 1
    /\ w.nf = "none"
    /\ w.fault = "none"
    /\ w.conds = << >>

\* C12: a reconcile of a Job without conditions returns success after its
\* single Get, makes no delete call, hands nothing to the sink and leaves the
\* Job as it is; and a step of the watcher removes a Job from the store only
\* in a reconcile that read Complete or Failed as the Job's first condition.
C12_NoConditionsIsNoOp ==
    /\ [](ReturnedOnNoConditions =>
            /\ w.res = Nil
            /\ w.del = "none"
            /\ w.sink = "none"
            /\ NothingEmitted
            /\ jobs[w.key].live
            /\ jobs[w.key].conds = << >>)
    /\ [][ \A k \in Ids :
             (WatcherStep /\ jobs[k].live /\ ~jobs'[k].live) =>
                 /\ k = w.key
                 /\ w.conds # << >>
                 /\ w.conds[1] \in {Complete, Failed} ]_vars

\* A queued request has just been reconciled after the Job under its name
\* was replaced by one without conditions.
C12_Witness ==
    /\ ReturnedOnNoConditions
    /\ jobs[w.key].live
    /\ jobs[w.key].conds = << >>

\* C13: a change event puts a request on the queue only if the Job has the
\* managed-by label of this provisioner, is in the configured namespace, has
\* at least one condition and carries the build-name and the provisioner-id
\* label (the only other way onto the queue is the requeue of a reconcile
\* that returned an error); a request is never taken for a name that was not
\* queued.
C13_OnlyFilteredEventsQueued ==
    [][ \A k \in Ids :
          /\ (k \in queue' /\ k \notin queue) =>
                \/ /\ jobs'[k].managedBy = "forge-provisioner-shell"
                   /\ jobs'[k].ns = "forge-core"
                   /\ Len(jobs'[k].conds) > 0
                   /\ jobs'[k].buildName # ""
                   /\ jobs'[k].uuid # NoId
                \/ /\ WatcherStep
                   /\ w.key = k
                   /\ w'.res # Nil
          /\ (w.pc = "idle" /\ w'.pc = "get" /\ w'.key = k) => k \in queue ]_vars

\* A Job that fails exactly one filter (it is in another namespace) has been
\* written with a terminal condition, and no request for it is queued or in
\* flight.
C13_Witness ==
    /\ jobs[WatchedName].live
    /\ jobs[WatchedName].ns # ForgeCoreNamespace
    /\ jobs[WatchedName].managedBy = ForgeProvisionerShellName
    /\ jobs[WatchedName].buildName # ""
    /\ jobs[WatchedName].uuid # NoId
    /\ jobs[WatchedName].conds = << Failed >>
    /\ WatchedName \notin queue
    /\ w.pc = "idle"

\* A container of some pod in the list terminated with a non-zero exit code.
SomeFailedIn(podList) == \E c \in CNames : FailedInAll(podList, c) > 0

C15_EitherScriptSourceApplied ==
    (Called /\ ens.pre = NoId /\ ens.fault = Nil) =>
        /\ ens.out = "returned"
        /\ ens.err = Nil
        /\ specUUID # NoId
        /\ jobs[JobName(specUUID)].live
        /\ jobs[JobName(specUUID)].script =
              (IF ens.src.run # NilStr THEN ens.src.run ELSE ens.src.ref)

\* The state of the client that its callers and goroutines share.
clientState == << creds, client, signals, conns, tasks >>

\* Caller t has just returned from a call of op.
ReturnedFrom(t, op) == thr[t].op = op /\ thr[t].pc = "done"

\* Caller t returns from a call of op in this step (a step of anyone else
\* forgets the call t has returned from).
Returns(t, op) ==
    /\ thr'[t].op = op
    /\ thr'[t].pc = "done"

\* C16: Validate returns ErrInvalidUsername when the username is empty
\* (whatever the password and the key are), ErrInvalidAuth when the username
\* is set and password and key are both empty, nil when the username and at
\* least one of password and key are set; and the call changes nothing of the
\* client.
C16_ValidateByCredentials ==
    /\ [](\A t \in Callers : ReturnedFrom(t, "Validate") =>
            /\ thr[t].seen = creds
            /\ creds.user = "" => thr[t].err = ErrInvalidUsername
            /\ (creds.user # "" /\ creds.password = "" /\ creds.key = "") =>
                  thr[t].err = ErrInvalidAuth
            /\ (creds.user # "" /\ (creds.password # "" \/ creds.key # "")) =>
                  thr[t].err = Nil)
    /\ [][ \A t \in Callers :
             Returns(t, "Validate") => clientState' = clientState ]_vars

\* Validate has just returned ErrInvalidUsername for credentials whose
\* password and key are both set.
C16_Witness ==
    \E t \in Callers :
        /\ ReturnedFrom(t, "Validate")
        /\ thr[t].seen.user = ""
        /\ thr[t].seen.password # ""
        /\ thr[t].seen.key # ""
        /\ thr[t].err = ErrInvalidUsername

\* The credentials fail Validate.
Invalid(c) == c.user = "" \/ (c.password = "" /\ c.key = "")

\* C17: a Connect call on credentials that fail Validate returns Validate's
\* error without having called readPrivateKey or dial, stores no session
\* handle, makes no disconnect signal and starts no keepAlive goroutine: the
\* step that returns leaves the client as it was.
C17_ValidateBeforeAnything ==
    /\ [](\A t \in Callers :
            (ReturnedFrom(t, "Connect") /\ Invalid(thr[t].seen)) =>
                /\ thr[t].err = (IF thr[t].seen.user = "" THEN ErrInvalidUsername
                                 ELSE ErrInvalidAuth)
                /\ thr[t].keyReads = 0
                /\ thr[t].dials = 0
                /\ ~thr[t].stored
                /\ ~thr[t].signal
                /\ thr[t].started = 0)
    /\ [][ \A t \in Callers :
             (Returns(t, "Connect") /\ Invalid(thr'[t].seen)) =>
                 /\ Free(t)
                 /\ clientState' = clientState ]_vars

\* Connect has just returned ErrInvalidUsername on credentials that have a
\* private key.
C17_Witness ==
    \E t \in Callers :
        /\ ReturnedFrom(t, "Connect")
        /\ thr[t].seen.user = ""
        /\ thr[t].seen.key = "good-key"
        /\ thr[t].err = ErrInvalidUsername

\* C18: a Connect call on valid credentials uses one auth method: with a
\* private key set (a password set as well or not) it calls readPrivateKey
\* exactly once and does not use password auth; with only a password set it
\* uses password auth and never calls readPrivateKey.
C18_KeyTakesPrecedence ==
    \A t \in Callers :
        (thr[t].op = "Connect" /\ ~Invalid(thr[t].seen)) =>
            /\ thr[t].seen.key # "" =>
                  /\ thr[t].keyReads = 1
                  /\ thr[t].auth # PasswordAuth
                  /\ thr[t].seen.key = "good-key" => thr[t].auth = KeyAuth
            /\ thr[t].seen.key = "" =>
                  /\ thr[t].keyReads = 0
                  /\ thr[t].auth = PasswordAuth

\* Connect has just returned nil on credentials with both a password and a
\* private key, having read the key once.
C18_Witness ==
    \E t \in Callers :
        /\ ReturnedFrom(t, "Connect")
        /\ thr[t].seen.password # ""
        /\ thr[t].seen.key # ""
        /\ thr[t].keyReads = 1
        /\ thr[t].auth = KeyAuth
        /\ thr[t].err = Nil

\* C19: a Connect call whose dial fails returns dial's error after that one
\* dial, without storing a session handle, making a disconnect signal or
\* starting a keepAlive goroutine.
C19_DialErrorReturned ==
    \A t \in Callers :
        (thr[t].op = "Connect" /\ thr[t].dialErr # Nil) =>
            /\ thr[t].pc = "done"
            /\ thr[t].err = thr[t].dialErr
            /\ thr[t].dials = 1
            /\ ~thr[t].stored
            /\ ~thr[t].signal
            /\ thr[t].started = 0

\* Connect has just returned dial's error on a client that holds the session
\* handle and the keepAlive goroutine of an earlier Connect.
C19_Witness ==
    \E t \in Callers :
        /\ ReturnedFrom(t, "Connect")
        /\ thr[t].dialErr = ErrDial
        /\ thr[t].err = ErrDial
        /\ client.cryptoClient # 0
        /\ Len(tasks) = 1

\* The keepAlive goroutines that have not returned.
AliveTasks == { i \in 1..Len(tasks) : tasks[i].pc # "done" }

\* C20: at most one keepAlive goroutine is alive in every reachable state;
\* a Connect call that returns nil has started exactly one when
\* Options.KeepAlive > 0 and none when it is 0.
C20_AtMostOneKeepAlive ==
    /\ Cardinality(AliveTasks) <= 1
    /\ \A t \in Callers :
          (ReturnedFrom(t, "Connect") /\ thr[t].err = Nil) =>
              IF client.keepAlive > 0
              THEN thr[t].started \in AliveTasks
              ELSE thr[t].started = 0 /\ tasks = << >>

\* C21: once Disconnect has closed the signal of a connected client, every
\* keepAlive goroutine started before returns, whenever the Disconnect came:
\* before the goroutine first waits on the signal, while it waits, or while
\* it sends a keepalive request.
C21_KeepAliveExitsAfterDisconnect ==
    \A i \in 1..MaxConns :
        (i \in AliveTasks /\ client.close = 0)
            ~> (i \in 1..Len(tasks) /\ tasks[i].pc = "done")

\* C22: Disconnect is idempotent and safe under concurrency: no call panics
\* or waits for anything but its turn under the mutex; a call that finds a
\* signal closes that one signal, which was open, and forgets it; a call that
\* finds none (a never-connected client, or a signal another call has closed)
\* leaves the client as it was; no signal is closed in any other way.
C22_DisconnectIdempotent ==
    /\ [](\A t \in Callers :
            thr[t].op = "Disconnect" =>
                /\ thr[t].err = Nil
                /\ thr[t].pc = "close" => ENABLED DisconnectLocked(t))
    /\ [][ /\ signals'.closed \ signals.closed \subseteq {client.close} \ {0}
           /\ \A t \in Callers :
                 Returns(t, "Disconnect") =>
                     IF client.close = 0
                     THEN ~thr'[t].closed /\ UNCHANGED clientState
                     ELSE /\ thr'[t].closed
                          /\ client.close \notin signals.closed
                          /\ signals'.closed = signals.closed \cup {client.close}
                          /\ client' = [client EXCEPT !.close = 0]
                          /\ UNCHANGED << creds, conns, tasks >> ]_vars

\* Two Disconnect calls run concurrently on a connected client: both took the
\* default branch, one has just returned having closed the signal and the
\* other is about to enter the section under the mutex.
C22_Witness ==
    \E t, u \in Callers :
        /\ ReturnedFrom(t, "Disconnect")
        /\ thr[t].closed
        /\ thr[u].op = "Disconnect"
        /\ thr[u].pc = "close"
        /\ client.cryptoClient # 0

\* WaitForSSH has returned.
Waited == wfs.pc = "done"

\* C23 as stated: with Connect always failing at once and maxWait = 5 s,
\* WaitForSSH returns ErrTimeout within one 2-second tick of 5 s, after
\* between 2 and 3 attempts separated by 2-second sleeps.
C23_TimeoutAfterTwoOrThreeAttempts ==
    (Waited /\ wfs.maxWait = 5 /\ wfs.err # Nil) =>
        /\ wfs.err = ErrTimeout
        /\ now - wfs.start \in (5 - SleepSeconds)..(5 + SleepSeconds)
        /\ wfs.attempts \in 2..3
        /\ wfs.sleeps = wfs.attempts - 1

\* C23: with Connect always failing at once and maxWait = 5 s, WaitForSSH
\* returns ErrTimeout 6 s after it started (within one 2-second tick of 5 s),
\* after 4 attempts (at 0, 2, 4 and 6 s) separated by 3 sleeps of 2 s.
C23_TimeoutAfterFourAttempts ==
    (Waited /\ wfs.maxWait = 5 /\ wfs.err # Nil) =>
        /\ wfs.err = ErrTimeout
        /\ now - wfs.start = 6
        /\ wfs.attempts = 4
        /\ wfs.sleeps = 3

\* WaitForSSH(5 s) has returned ErrTimeout.
C23_Witness == Waited /\ wfs.maxWait = 5 /\ wfs.err = ErrTimeout

\* C24: when Connect succeeds, WaitForSSH disconnects the probe and returns
\* nil without a further attempt; on return the client holds no session
\* handle or transport connection and no keepAlive goroutine runs.
C24_ProbeLeavesNothingOpen ==
    (Waited /\ wfs.err = Nil) =>
        /\ wfs.sleeps = wfs.attempts - 1
        /\ client.close = 0
        /\ client.cryptoClient = 0
        /\ AliveTasks = {}

\* The Upload call has started its two goroutines.
Uploading == up.pc # "idle" /\ up.writer # "none"

\* The writer has written all it writes, and no Write failed.
UploadWroteAll ==
    /\ Uploading
    /\ up.writer \in {"wgdone", "close", "finished"}
    /\ ~up.failed

\* What was written to the session's stdin: the header line without its
\* newline, its fields, what follows the second field and its space (a name
\* may hold spaces), and what follows the newline.
UploadedLine == SubSeq(up.stdin, 1, FirstIndex(up.stdin, "\n") - 1)
UploadedFields == Split(UploadedLine, " ")
UploadedName ==
    SubSeq(UploadedLine, Len(UploadedFields[1]) + Len(UploadedFields[2]) + 3,
           Len(UploadedLine))
UploadedBody == SubSeq(up.stdin, FirstIndex(up.stdin, "\n") + 1, Len(up.stdin))

\* The header but for its mode field, the content, the NUL, the close of the
\* pipe after them, and the receiver command.
UploadedButMode ==
    /\ (Uploading /\ up.closed) => up.writer = "finished"
    /\ (Uploading /\ up.writer = "finished") => up.closed
    /\ (Uploading /\ up.remote.cmd # << >>) =>
          up.remote.cmd = ScpSink \o Dir(up.dst)
    /\ UploadWroteAll =>
          /\ FirstIndex(up.stdin, "\n") > 0
          /\ Len(UploadedFields) >= 3
          /\ Len(UploadedFields[1]) >= 2
          /\ UploadedFields[1][1] = "C"
          /\ \A i \in 2..Len(UploadedFields[1]) : IsDigit(UploadedFields[1][i], 8)
          /\ DigitsValue(Tail(UploadedFields[1]), 8) = up.mode
          /\ UploadedFields[2] # << >>
          /\ \A i \in 1..Len(UploadedFields[2]) : IsDigit(UploadedFields[2][i], 10)
          /\ DigitsValue(UploadedFields[2], 10) = Len(up.content)
          /\ UploadedName = Base(up.dst)
          /\ UploadedBody = up.content \o << NUL >>

\* C25 as stated: the writer sends, in this order and nothing else, the header
\* `C<mode as 3-digit octal> <decimal length> <basename>` and a newline, the
\* content, one NUL, and then closes the pipe; the receiver command is scoped
\* to the destination's directory.
C25_HeaderWithThreeDigitMode ==
    /\ UploadedButMode
    /\ UploadWroteAll => Len(Tail(UploadedFields[1])) = 3

\* C25: the writer sends, in this order and nothing else, the header
\* `C<mode in octal with a leading 0> <decimal length> <basename>` and a
\* newline (C0644 for mode 0644; the mode is not padded to a width), the
\* content, one NUL, and then closes the pipe; the receiver command is scoped
\* to the destination's directory.
C25_HeaderWithLeadingZeroMode ==
    /\ UploadedButMode
    /\ UploadWroteAll => UploadedFields[1][2] = "0"

\* The writer has sent "C0644 2 f\n", two content bytes and the NUL, and has
\* closed the pipe.
C25_Witness ==
    /\ UploadWroteAll
    /\ up.writer = "finished"
    /\ up.mode = 420
    /\ Len(up.content) = 2
    /\ up.stdin = << "C", "0", "6", "4", "4", " ", "2", " ", "f", "\n" >>
                      \o up.content \o << NUL >>

\* C26: Upload returns only after the writer and the invoker have finished;
\* it returns nil if and only if neither reported an error, and the first
\* error reported otherwise.
C26_ReturnsAfterBothFinished ==
    (Uploading /\ up.pc = "done") =>
        /\ up.writer = "finished"
        /\ up.invoker = "finished"
        /\ up.err = Nil <=> up.reported = << >>
        /\ up.reported # << >> => up.err = up.reported[1]

\* C27: Upload never deadlocks: with a remote receiver that exits at the end
\* of its input or before, both goroutines finish and Upload returns; a
\* goroutine that reports an error finds room in the error channel, and no
\* goroutine reports more than once.
C27_UploadTerminates ==
    /\ [](Uploading =>
            /\ up.writer = "report" => ENABLED WriterReport
            /\ up.invoker = "report" => ENABLED InvokerReport
            /\ Len(up.reported) <= 2
            /\ Len(up.reported) = 2 => up.reported[1] # up.reported[2])
    /\ (Uploading /\ up.pc = "wait")
          ~> (up.pc = "done" /\ up.writer = "finished" /\ up.invoker = "finished")

\* Upload has returned after both goroutines reported an error: the remote
\* receiver exited early with a non-zero status.
C27_Witness ==
    /\ Uploading
    /\ up.pc = "done"
    /\ up.writer = "finished"
    /\ up.invoker = "finished"
    /\ up.remote.kind = "early"
    /\ Len(up.reported) = 2

\* The Download call has started its three goroutines.
Downloading == down.pc # "idle" /\ down.reader # "none"

\* The shape `C<4 mode chars> <decimal length> <name>` of a header line
\* (given with its newline).
WellFormedHeader(line) ==
    LET fields == Split(SubSeq(line, 1, Len(line) - 1), " ")
    IN  /\ Len(fields) = 3
        /\ Len(fields[1]) = 5
        /\ fields[1][1] = "C"
        /\ IsDecimal(fields[2])

\* The reader has read a header line that deviates from the shape.
ReadMalformedHeader ==
    /\ Downloading
    /\ down.line # << >>
    /\ ~WellFormedHeader(down.line)

\* C28: Download fails with ErrSSHInvalidMessageLength for every header line
\* that deviates from the shape `C<4 mode chars> <decimal length> <name>`
\* (when the reader's error is the first reported), and writes no payload
\* byte to the destination.
C28_MalformedHeaderIsInvalidLength ==
    (ReadMalformedHeader /\ down.pc = "done"
        /\ down.reported # << >> /\ down.reported[1].who = "reader") =>
            /\ down.err = ErrSSHInvalidMessageLength
            /\ down.dst = << >>

\* C29: after a malformed header Download always returns, whatever the
\* remote sender does: once the reader has aborted, the ack-writer and the
\* invoker finish and the barrier is released. (No step of a Download is
\* taken twice, so the call returns unless it reaches a state in which it has
\* not returned and nothing can run.)
C29_ReturnsAfterMalformedHeader ==
    (ReadMalformedHeader /\ down.reader \in {"report", "finished"}) =>
        (down.pc = "done" \/ ENABLED DownloadNext)

\* C30: the ack-writer sends three NULs and then closes the pipe, and the
\* three have been sent when the reader reads the header.
C30_ThreeAcksBeforeHeader ==
    Downloading =>
        /\ down.stdinClosed <=> down.ackWriter \in {"wgdone", "finished"}
        /\ down.line # << >> => down.acksAtHeader = 3

\* The bytes the remote sends after its header line.
Following ==
    IF down.remote.kind = "scp" THEN down.remote.payload \o << NUL >>
    ELSE [i \in 1..(MaxContentLen + WindowChunks + 1) |-> "x"]

\* The reader has read a header line of the shape `C<4 mode chars> <field>
\* <name>`.
ReadShapedHeader ==
    /\ Downloading
    /\ down.line # << >>
    /\ ParseHeader(down.line).err # ErrSSHInvalidMessageLength

\* The reader has returned without an error.
ReaderSucceeded ==
    /\ down.reader = "finished"
    /\ \A i \in 1..Len(down.reported) : down.reported[i].who # "reader"

\* C31: for a header whose second field is the byte length N, Download writes
\* exactly the N bytes that follow the header line to dst; if the stream ends
\* before N bytes, or the field is not a byte length (decimal, N >= 0),
\* Download returns an error.
C31_CopiesExactlyLength ==
    ReadShapedHeader =>
        LET field == Split(down.line, " ")[2]
            valid == IsDecimal(field)
        IN  /\ (valid /\ ReaderSucceeded) =>
                  down.dst = SubSeq(Following, 1, DigitsValue(field, 10))
            /\ (valid /\ ~ReaderSucceeded) =>
                  /\ Len(down.dst) <= DigitsValue(field, 10)
                  /\ down.dst = SubSeq(Following, 1, Len(down.dst))
            /\ (down.pc = "done" /\ ~(valid /\ ReaderSucceeded)) =>
                  down.err # Nil

\* C32: Download closes dst exactly once on every return path (success, an
\* error of one of its goroutines, failure to open the session or a pipe) and
\* not before it returns; when several goroutines fail, the error returned
\* is the first one reported, and without a report it is nil.
C32_ClosesDstOnceFirstErrorWins ==
    down.pc # "idle" =>
        /\ down.dstCloses = IF down.pc = "done" THEN 1 ELSE 0
        /\ (down.pc = "done" /\ down.reader # "none") =>
              down.err = IF down.reported = << >> THEN Nil
                         ELSE down.reported[1].err
        /\ (down.pc = "done" /\ down.reader = "none") =>
              down.err \in {ErrNewSession, ErrPipe}

\* Download has returned the first of two different reported errors.
C32_Witness ==
    /\ Downloading
    /\ down.pc = "done"
    /\ down.dstCloses = 1
    /\ Len(down.reported) = 2
    /\ down.reported[1].err # down.reported[2].err
    /\ down.err = down.reported[1].err

\* The remote has replayed what it stored (it did not refuse the file).
Replayed == down.remote.state = "exited" /\ down.remote.next = "ok"

\* C33: Upload(X, P, 0644) followed by Download(P) against a remote that
\* stores and replays succeeds (the header Upload emitted passes Download's
\* header check) and yields X byte for byte, under a header that carries the
\* mode 0644.
C33_RoundTrip ==
    (Uploaded /\ up.mode = 420 /\ Downloading /\ down.pc = "done" /\ Replayed) =>
        /\ ParseHeader(down.line).err = Nil
        /\ down.err = Nil
        /\ down.dst = up.content
        /\ Split(down.line, " ")[1] = << "C" >> \o FormatSharpOctal(up.mode)

\* Caller t takes a step that reads the credentials (Validate, or Connect up
\* to dial, or a getter's read) or that writes them (a setter's assignment).
AccessesCreds(t) ==
    \/ /\ Free(t)
       /\ thr'[t].op \in {"Validate", "Connect"}
       /\ thr'[t] # thr[t]
    \/ /\ thr[t].op \in DOMAIN Setters \cup DOMAIN Getters
       /\ thr[t].pc = "held"
       /\ thr'[t].pc = "release"

\* C34: every read and write of the credentials' password and private key,
\* by the setters and getters, by Validate and by Connect, is made by the
\* holder of Credentials.mu.
C34_CredentialsAccessedUnderLock ==
    [][\A t \in Callers : AccessesCreds(t) => rot.mu = t]_vars

\* C35: a getter returns the string given to the most recent completed call
\* of the setter of its field, a completed setter has left that string in its
\* field, and the credentials change only by a setter's assignment, which
\* leaves the other credential and the username as they were.
C35_GetReturnsLastSet ==
    /\ [](\A t \in Callers :
            /\ (thr[t].pc = "done" /\ thr[t].op \in DOMAIN Getters
                    /\ rot.last[Getters[thr[t].op]] # NilStr) =>
                  thr[t].ret = rot.last[Getters[thr[t].op]]
            /\ (thr[t].pc = "done" /\ thr[t].op \in DOMAIN Setters) =>
                  /\ creds[Setters[thr[t].op]] = thr[t].arg
                  /\ rot.last[Setters[thr[t].op]] = thr[t].arg)
    /\ [][creds' # creds =>
            \E t \in Callers :
               /\ thr[t].op \in DOMAIN Setters
               /\ thr[t].pc = "held"
               /\ thr'[t].pc = "release"
               /\ creds'[Setters[thr[t].op]] = thr[t].arg
               /\ \A f \in DOMAIN creds \ {Setters[thr[t].op]} :
                     creds'[f] = creds[f]]_vars

\* A getter has returned the password a completed setter set, while another
\* caller is in a call that sets a different one.
C35_Witness ==
    \E t, u \in Callers :
       /\ thr[t].pc = "done"
       /\ thr[t].op = "GetSSHPassword"
       /\ thr[t].ret = "secret"
       /\ rot.last.password = "secret"
       /\ thr[u].op = "SetSSHPassword"
       /\ thr[u].pc = "acquire"
       /\ thr[u].arg = ""

\* The filter ResourceNotPausedAndHasFilterLabel(labelValue) has answered.
Filtered ==
    /\ ev.pc = "done"
    /\ ev.predicates = ResourceNotPausedAndHasFilterLabel

\* A filter made by All lets an event through only if each of its predicates
\* does.
AllOnlyIfEach ==
    (ev.pc = "done" /\ ev.allowed) =>
        \A i \in 1..Len(ev.predicates) :
           Funcs(ev.predicates[i], ev.e, ev.labelValue)

RecordsAll(k) ==
    /\ w.key = k
    /\ w.pc = "list"
    /\ w'.sink = "ok"
    /\ \E c \in CNames : w'.emitted[c] = 1

\* C37: over the reconciles of one Failed Job, a reconcile that fails to
\* delete the Job after its failure records and the reconciles that retry it
\* included, each container with a non-zero exit code gives one failure
\* record in total: when a reconcile of the only Job there has ever been
\* hands its records to the sink, the sink has taken none before; and a
\* reconcile that finds the Job gone hands none.
C37_OneRecordAcrossRetries ==
    /\ []((Returned /\ w.nf = "get") => NothingEmitted)
    /\ [][\A k \in Ids :
            (minted = {k} /\ RecordsAll(k)) => failureReason = NilStr]_vars

\* C38: WaitForSSH returns nil or ErrTimeout only, after at least one Connect
\* for every maxWait (0 included); a Connect that fails, with
\* ErrInvalidUsername and ErrInvalidAuth as with any other error, is not
\* returned as itself: another Connect follows 2 seconds later, until the
\* time passed has reached maxWait, and then ErrTimeout is returned.
C38_OnlyNilOrTimeout ==
    /\ [](Waited =>
            /\ wfs.err \in {Nil, ErrTimeout}
            /\ wfs.attempts >= 1
            /\ wfs.sleeps = wfs.attempts - 1
            /\ now - wfs.start = SleepSeconds * wfs.sleeps
            /\ wfs.err = ErrTimeout =>
                  /\ now - wfs.start >= wfs.maxWait
                  /\ wfs.sleeps > 0 =>
                        now - wfs.start - SleepSeconds < wfs.maxWait)
    /\ [][(wfs.pc = "connect" /\ thr'[Waiter].op = "Connect"
              /\ thr'[Waiter].pc = "done" /\ thr'[Waiter].err # Nil
              /\ thr'[Waiter] # thr[Waiter]) =>
             IF now - wfs.start >= wfs.maxWait
             THEN wfs'.pc = "done" /\ wfs'.err = ErrTimeout
             ELSE wfs'.pc = "sleep"]_vars

\* WaitForSSH has returned ErrTimeout for a client without a username, after
\* more than one Connect.
C38_Witness ==
    /\ Waited
    /\ wfs.err = ErrTimeout
    /\ creds.user = ""
    /\ wfs.attempts >= 2

\* A Connect that returns nil on a client without a signal makes one that no
\* Disconnect has closed.
FreshSignal ==
    [][\A t \in Callers :
          (Returns(t, "Connect") /\ thr'[t].err = Nil /\ client.close = 0) =>
              /\ thr'[t].signal
              /\ client'.close # 0
              /\ client'.close \notin signals.closed
              /\ client'.close \notin signals'.closed]_vars

\* A Connect that returns nil on a client that has a signal keeps it.
ReusedSignal ==
    [][\A t \in Callers :
          (Returns(t, "Connect") /\ thr'[t].err = Nil /\ client.close # 0) =>
              /\ ~thr'[t].signal
              /\ client'.close = client.close
              /\ client.close \notin signals.closed]_vars

\* No keepAlive goroutine begins to wait on a signal that is closed already.
NotCancelledByEarlier ==
    [][\A i \in 1..Len(tasks) :
          (tasks[i].pc = "select" /\ tasks'[i].pc = "wait") =>
              tasks'[i].ch \notin signals.closed]_vars

\* A Disconnect closes a signal made after an earlier Disconnect: the
\* keepAlive goroutine last started, if it has not returned, is waiting on
\* that signal.
NextDisconnectReaches ==
    [][\A t \in Callers :
          (Returns(t, "Disconnect") /\ thr'[t].closed /\ client.close >= 2
             /\ Len(tasks) \in AliveTasks) =>
              /\ tasks[Len(tasks)].pc = "wait"
              /\ tasks[Len(tasks)].ch = client.close]_vars

\* C39: after a Disconnect, a later Connect that returns nil makes a fresh
\* disconnect signal; the keepAlive goroutine it starts is not ended by the
\* earlier Disconnect, and the next Disconnect ends it (the goroutine waits on
\* the signal that Disconnect closes); a Connect on a client whose signal is
\* open keeps that signal.
C39_FreshSignalAfterDisconnect ==
    /\ FreshSignal
    /\ ReusedSignal
    /\ NotCancelledByEarlier
    /\ NextDisconnectReaches

\* The credentials pass Validate and have a private key that does not parse.
UnreadableKey(c) == ~Invalid(c) /\ c.key # "" /\ readPrivateKey(c.key) # Nil

\* C40: a Connect call on credentials whose private key is set and does not
\* parse returns the key reader's error after reading the key once, with a
\* password set or not: it puts no auth method in the config (password auth
\* included), does not dial, stores no session handle, makes no disconnect
\* signal and starts no keepAlive goroutine, and leaves the client as it was.
C40_KeyErrorNoFallback ==
    /\ [](\A t \in Callers :
            (thr[t].op = "Connect" /\ UnreadableKey(thr[t].seen)) =>
                /\ thr[t].pc = "done"
                /\ thr[t].err = readPrivateKey(thr[t].seen.key)
                /\ thr[t].keyReads = 1
                /\ thr[t].auth = "none"
                /\ thr[t].dials = 0
                /\ ~thr[t].stored
                /\ ~thr[t].signal
                /\ thr[t].started = 0)
    /\ [][ \A t \in Callers :
             (Returns(t, "Connect") /\ UnreadableKey(thr'[t].seen)) =>
                 /\ Free(t)
                 /\ clientState' = clientState ]_vars

\* Connect has just returned the key reader's error on credentials that have
\* a password as well.
C40_Witness ==
    \E t \in Callers :
        /\ ReturnedFrom(t, "Connect")
        /\ thr[t].seen.user # ""
        /\ thr[t].seen.password # ""
        /\ thr[t].seen.key = "bad-key"
        /\ thr[t].err = ErrParseKey
        /\ thr[t].keyReads = 1

====
